---- MODULE Spec2Model ----
(***************************************************************************)
(* Model of the CPython 2 dict simulation of specgen2k                     *)
(* (src/src/spec-generator.js, lines 499-629): the legacy string hash in   *)
(* its 32-bit and 64-bit variants, the open-addressing table Py2Dict and   *)
(* py2DictOrder; and of its use by generateSpec: detectNamespace,          *)
(* extractVocabulary, reorderByList, applyAncientBugs, applyPy2Ordering    *)
(* and the empty placeholders.  The method set of Py2Dict is modelled      *)
(* twice: as one step, and one loop iteration at a time.                   *)
(*                                                                         *)
(* A string is the sequence of its UTF-16 code units (what charCodeAt      *)
(* returns).  TLC integers are 32 bits wide, so a wide unsigned value is a *)
(* "word": the sequence of its base-256 digits, least significant first    *)
(* (4 digits for 32 bits, 8 for 64), and a signed value is a record        *)
(* [neg, mag] of a sign and a magnitude word.                              *)
(***************************************************************************)
EXTENDS Integers, Sequences, FiniteSets, TLC

(***************************************************************************)
(* Bounds of the model.                                                    *)
(***************************************************************************)
\* most re-insertions of an already inserted string in one input sequence
MaxDup == 1
\* most distinct strings of an input of the short family
MaxShort == 6
\* most distinct strings of an input of the long family
MaxLong == 23

(***************************************************************************)
(* Program constants.                                                      *)
(***************************************************************************)
PyDictMinSize == 8
HashMultiplier == 1000003
LargeTableThreshold == 50000

(***************************************************************************)
(* Bit operations on naturals below 2^31.                                  *)
(***************************************************************************)
RECURSIVE BitXor(_, _)
BitXor(a, b) ==
  IF a = 0 THEN b
  ELSE IF b = 0 THEN a
  ELSE (((a % 2) + (b % 2)) % 2) + (2 * BitXor(a \div 2, b \div 2))

RECURSIVE BitAnd(_, _)
BitAnd(a, b) ==
  IF a = 0 \/ b = 0 THEN 0
  ELSE ((a % 2) * (b % 2)) + (2 * BitAnd(a \div 2, b \div 2))

(***************************************************************************)
(* Words: fixed-width unsigned values, arithmetic modulo 256^Len.          *)
(***************************************************************************)
RECURSIVE NatToWord(_, _)
NatToWord(k, n) ==
  IF n = 0 THEN << >> ELSE <<k % 256>> \o NatToWord(k \div 256, n - 1)

RECURSIVE WordAddNat(_, _)
WordAddNat(x, k) ==
  IF x = << >> THEN << >>
  ELSE LET s == x[1] + k
       IN  <<s % 256>> \o WordAddNat(Tail(x), s \div 256)

RECURSIVE WordMulNat(_, _, _)
WordMulNat(x, m, carry) ==
  IF x = << >> THEN << >>
  ELSE LET p == (x[1] * m) + carry
       IN  <<p % 256>> \o WordMulNat(Tail(x), m, p \div 256)

RECURSIVE WordXor(_, _)
WordXor(x, y) ==
  IF x = << >> THEN << >>
  ELSE <<BitXor(x[1], y[1])>> \o WordXor(Tail(x), Tail(y))

RECURSIVE WordNot(_)
WordNot(x) ==
  IF x = << >> THEN << >> ELSE <<255 - x[1]>> \o WordNot(Tail(x))

\* two's complement negation: 256^Len - x (modulo 256^Len)
WordNeg(x) == WordAddNat(WordNot(x), 1)

\* x - 1 (modulo 256^Len)
WordDec(x) == WordNot(WordNeg(x))

\* x >> 5
RECURSIVE WordShr5(_)
WordShr5(x) ==
  IF Len(x) = 1 THEN <<x[1] \div 32>>
  ELSE <<(x[1] \div 32) + ((x[2] % 32) * 8)>> \o WordShr5(Tail(x))

\* the low 24 bits of x, as a natural
WordLow(x) ==
  x[1] + ((IF Len(x) >= 2 THEN 256 * x[2] ELSE 0)
          + (IF Len(x) >= 3 THEN 65536 * x[3] ELSE 0))

\* x widened or truncated to n digits
RECURSIVE WordFit(_, _)
WordFit(x, n) ==
  IF n = 0 THEN << >>
  ELSE IF x = << >> THEN <<0>> \o WordFit(x, n - 1)
  ELSE <<x[1]>> \o WordFit(Tail(x), n - 1)

(***************************************************************************)
(* Signed values.                                                          *)
(***************************************************************************)
\* the signed value of the bit pattern v:  v >= 2^(w-1) ? v - 2^w : v
ToSigned(v) ==
  IF v[Len(v)] >= 128
    THEN [neg |-> TRUE, mag |-> WordNeg(v)]
    ELSE [neg |-> FALSE, mag |-> v]

\* the n-digit bit pattern of the signed value s:  s < 0 ? s + 2^w : s
ToUnsigned(s, n) ==
  IF s.neg THEN WordNeg(WordFit(s.mag, n)) ELSE WordFit(s.mag, n)

\* s ^ c for a signed big integer s and a natural c < 2^16, in unbounded
\* two's complement:  -m ^ c = ~(m - 1) ^ c = ~((m - 1) ^ c) = -(((m - 1) ^ c) + 1)
SignedXorNat(s, c) ==
  LET cw == NatToWord(c, Len(s.mag))
  IN  IF s.neg
        THEN [neg |-> TRUE, mag |-> WordAddNat(WordXor(WordDec(s.mag), cw), 1)]
        ELSE [neg |-> FALSE, mag |-> WordXor(s.mag, cw)]

SignedOfInt(k, n) ==
  IF k < 0 THEN [neg |-> TRUE, mag |-> NatToWord(0 - k, n)]
           ELSE [neg |-> FALSE, mag |-> NatToWord(k, n)]

(***************************************************************************)
(* py2Hash64: CPython 2.7 string hash, 64-bit.                             *)
(***************************************************************************)
RECURSIVE py2Hash64Loop(_, _, _)
py2Hash64Loop(str, i, x) ==
  IF i > Len(str) THEN x
  ELSE py2Hash64Loop(str, i + 1,
         ToUnsigned(SignedXorNat(ToSigned(WordMulNat(x, HashMultiplier, 0)),
                                 str[i]), 8))

\* the value of x at line 519, before the sentinel test
py2Hash64Natural(str) ==
  ToSigned(WordXor(py2Hash64Loop(str, 1, NatToWord(str[1] * 128, 8)),
                   NatToWord(Len(str), 8)))

\* mutant: the empty string is hashed as the string of one NUL
py2Hash64_EmptyAsNul(str) ==
  LET x == py2Hash64Natural(IF Len(str) = 0 THEN <<0>> ELSE str)
  IN  IF x = SignedOfInt(-1, 8) THEN SignedOfInt(-2, 8) ELSE x

py2Hash64(str) ==
  IF Len(str) = 0 THEN SignedOfInt(0, 8)
  ELSE LET x == py2Hash64Natural(str)
       IN  IF x = SignedOfInt(-1, 8) THEN SignedOfInt(-2, 8) ELSE x

(***************************************************************************)
(* py2Hash32: CPython 2.7 string hash, 32-bit.                             *)
(***************************************************************************)
\* mutant: the product is clamped to the 32-bit range instead of wrapped
Imul_Saturating(m, s) ==
  LET wide == WordMulNat(WordFit(s.mag, 8), m, 0)
      fits == wide[4] < 128 /\ wide[5] = 0 /\ wide[6] = 0 /\ wide[7] = 0
                /\ wide[8] = 0
  IN  IF fits THEN [neg |-> s.neg /\ wide # NatToWord(0, 8),
                    mag |-> WordFit(wide, 4)]
      ELSE IF s.neg THEN [neg |-> TRUE, mag |-> <<0, 0, 0, 128>>]
      ELSE [neg |-> FALSE, mag |-> <<255, 255, 255, 127>>]

\* Math.imul(m, s)
Imul(m, s) == ToSigned(WordMulNat(ToUnsigned(s, 4), m, 0))

\* s ^ c on 32-bit integers
Int32XorNat(s, c) == ToSigned(WordXor(ToUnsigned(s, 4), NatToWord(c, 4)))

RECURSIVE py2Hash32Loop(_, _, _)
py2Hash32Loop(str, i, x) ==
  IF i > Len(str) THEN x
  ELSE py2Hash32Loop(str, i + 1, Int32XorNat(Imul(HashMultiplier, x), str[i]))

\* the value of x at line 534, before the sentinel test
py2Hash32Natural(str) ==
  Int32XorNat(py2Hash32Loop(str, 1, ToSigned(NatToWord(str[1] * 128, 4))),
              Len(str))

\* mutant: the sentinel test of line 536 is missing
py2Hash32_NoRemap(str) ==
  IF Len(str) = 0 THEN SignedOfInt(0, 4) ELSE py2Hash32Natural(str)

py2Hash32(str) ==
  IF Len(str) = 0 THEN SignedOfInt(0, 4)
  ELSE LET x == py2Hash32Natural(str)
       IN  IF x = SignedOfInt(-1, 4) THEN SignedOfInt(-2, 4) ELSE x

(***************************************************************************)
(* Input strings.                                                          *)
(***************************************************************************)
Range(f) == { f[i] : i \in DOMAIN f }

\* "b฼宲": its natural 32-bit hash is -1
KeyM32 == <<98, 3644, 23474>>
\* "6ؕ啂䟕Z": its natural 64-bit hash is -1
KeyM64 == <<54, 1557, 21826, 18389, 90>>
\* the strings an input of the short family starts with, in any order:
\* "", "a", "b", "ab"
ShortFree == { << >>, <<97>>, <<98>>, <<97, 98>> }
\* the strings an input of the short family goes on with, in this order:
\* the two strings above, "ba", "aa"
ShortTail == <<KeyM32, KeyM64, <<98, 97>>, <<97, 97>>>>
\* the strings of an input of the long family, in this order:
\* "ah" "ad" "cb" "ai" "af" "ef" "el" "cm" "cg" "cn" "em" "ca" ...
LongKeys ==
  << <<97, 104>>, <<97, 100>>, <<99, 98>>, <<97, 105>>, <<97, 102>>,
     <<101, 102>>, <<101, 108>>, <<99, 109>>, <<99, 103>>, <<99, 110>>,
     <<101, 109>>, <<99, 97>>, <<99, 105>>, <<101, 110>>, <<99, 107>>,
     <<97, 103>>, <<99, 99>>, <<97, 106>>, <<99, 104>>, <<99, 111>>,
     <<97, 99>>, <<99, 106>>, <<99, 108>>, <<97, 109>>, <<97, 101>>,
     <<97, 107>> >>
\* every input string of the two families
AllKeys == ShortFree \cup Range(ShortTail) \cup Range(LongKeys)

\* The vocabulary of the documents: the namespace "n/", the classes "n/A",
\* "n/B", "n/C", the properties "n/p", "n/q", "n/r", the class "x#T" of
\* another namespace and the label "Bee".
Ns == <<110, 47>>
ClassA == <<110, 47, 65>>
ClassB == <<110, 47, 66>>
ClassC == <<110, 47, 67>>
PropP == <<110, 47, 112>>
PropQ == <<110, 47, 113>>
PropR == <<110, 47, 114>>
ForeignT == <<120, 35, 84>>
LabelBee == <<66, 101, 101>>
TermUris == {ClassA, ClassB, ClassC, PropP, PropQ, PropR, ForeignT}
\* the hash widths a caller asks for: the two legal ones and an illegal one
LegalWidths == {32, 64}
RequestedWidths == {16, 32, 64}

(***************************************************************************)
(* Py2Dict.                                                                *)
(***************************************************************************)
VARIABLES
  bits,      \* the bits argument of the constructor (selects this._hash)
  use64,     \* this._use64
  size,      \* this._size
  mask,      \* this._mask
  table,     \* this._table; slot i of the code is table[i + 1]
  fill,      \* this._fill
  used,      \* this._used
  strings,   \* the strings py2DictOrder has passed to set so far
  pc,        \* "insert" while py2DictOrder is in its loop, "done" after keys()
  result,    \* the value py2DictOrder returns
  resizes,   \* number of calls of _resize so far
  oldTable,  \* oldTable of the latest call of _resize
  firsts,    \* the run of py2DictOrder on the first occurrences of strings:
             \* its dict d and the number of its resizes
  probe,     \* the call of _findSlot, _resize or _insertClean under way when
             \* set is run one loop iteration at a time
  call,      \* the function applied on its own, with its arguments
  ret,       \* <<its return value>>, << >> before it returns
  calls,     \* the calls of py2DictOrder in progress, one record per caller
  log,       \* the calls of py2DictOrder that have returned, oldest first
  quads,     \* quads of generateSpec: the parsed document
  vocab,     \* vocab.classes of generateSpec, << >> before extractVocabulary
  stage,     \* how far generateSpec has come
  candidates, \* per class of vocab, the four lists applyPy2Ordering collected
  props,     \* vocab.properties of generateSpec
  ancient    \* the ancientBugs option once generateSpec has applied it

dictVars == <<bits, use64, size, mask, table, fill, used, strings, pc, result,
              resizes, oldTable, firsts, probe>>

callVars == <<calls, log>>

genVars == <<quads, vocab, stage, candidates, props, ancient>>

vars == <<dictVars, call, ret, callVars, genVars>>

NullSlot == [occupied |-> FALSE]

\* mutant: the slot does not keep the hash of the key
Entry_ZeroHash(key, hash, value) ==
  [occupied |-> TRUE, key |-> key,
   hash |-> [neg |-> FALSE, mag |-> NatToWord(0, Len(hash.mag))],
   value |-> value]

Entry(key, hash, value) ==
  [occupied |-> TRUE, key |-> key, hash |-> hash, value |-> value]

RECURSIVE EmptyTable(_)
EmptyTable(n) ==
  IF n = 0 THEN << >>
  ELSE IF n = 1 THEN <<NullSlot>>
  ELSE EmptyTable(n \div 2) \o EmptyTable(n - (n \div 2))

\* this._hash, chosen by the constructor
HashFn(b, s) == IF b = 32 THEN py2Hash32(s) ELSE py2Hash64(s)

\* this._hash(s) for every width and input string, computed once
HashMemo ==
  { <<b, s, HashFn(b, s)>> :
      b \in RequestedWidths, s \in AllKeys \cup TermUris }

\* this._hash(s)
HashOf(b, s) == (CHOOSE t \in HashMemo : t[1] = b /\ t[2] = s)[3]

\* the hash as an unsigned big integer
UnsignedHash(u64, hash) ==
  IF u64 THEN ToUnsigned(hash, 8) ELSE ToUnsigned(hash, 4)

\* hash-as-unsigned & mask
FirstIndex(u64, hash, m) == BitAnd(WordLow(UnsignedHash(u64, hash)), m)

\* mutant: the probe step leaves perturb out
NextIndex_NoPerturb(i, perturb, m) == BitAnd((i * 5) + 1, m)

\* ((i * 5n) + perturb + 1n) & mask
NextIndex(i, perturb, m) ==
  BitAnd(WordLow(WordAddNat(perturb \o <<0>>, (i * 5) + 1)), m)

\* mutant: the probe loop stops at an empty slot only, not at the key
RECURSIVE FindSlotLoop_NullOnly(_, _, _, _, _)
FindSlotLoop_NullOnly(tbl, m, key, i, perturb) ==
  LET i2 == NextIndex(i, perturb, m)
  IN  IF ~tbl[i2 + 1].occupied
        THEN i2
        ELSE FindSlotLoop_NullOnly(tbl, m, key, i2, WordShr5(perturb))

RECURSIVE FindSlotLoop(_, _, _, _, _)
FindSlotLoop(tbl, m, key, i, perturb) ==
  LET i2   == NextIndex(i, perturb, m)
      slot == tbl[i2 + 1]
  IN  IF (~slot.occupied) \/ slot.key = key
        THEN i2
        ELSE FindSlotLoop(tbl, m, key, i2, WordShr5(perturb))

\* mutant: the first probe tests for an empty slot only, not for the key
FindSlot_FirstNullOnly(tbl, m, u64, key, hash) ==
  LET i    == FirstIndex(u64, hash, m)
      slot == tbl[i + 1]
  IN  IF ~slot.occupied
        THEN i
        ELSE FindSlotLoop(tbl, m, key, i, UnsignedHash(u64, hash))

FindSlot(tbl, m, u64, key, hash) ==
  LET i    == FirstIndex(u64, hash, m)
      slot == tbl[i + 1]
  IN  IF (~slot.occupied) \/ slot.key = key
        THEN i
        ELSE FindSlotLoop(tbl, m, key, i, UnsignedHash(u64, hash))

\* mutant: _insertClean stores at the first index without probing
InsertCleanLoop_NoProbe(tbl, m, i, perturb) == i

RECURSIVE InsertCleanLoop(_, _, _, _)
InsertCleanLoop(tbl, m, i, perturb) ==
  IF tbl[i + 1].occupied
    THEN InsertCleanLoop(tbl, m, NextIndex(i, perturb, m), WordShr5(perturb))
    ELSE i

\* mutant: _insertClean counts the slot as filled but not as used
InsertClean_NoUsed(d, u64, key, hash, value) ==
  LET i == InsertCleanLoop(d.table, d.mask, FirstIndex(u64, hash, d.mask),
                           UnsignedHash(u64, hash))
  IN  [d EXCEPT !.table = [d.table EXCEPT ![i + 1] = Entry(key, hash, value)],
                !.fill  = d.fill + 1]

\* d is the dict as a record [table, size, mask, fill, used]
InsertClean(d, u64, key, hash, value) ==
  LET i == InsertCleanLoop(d.table, d.mask, FirstIndex(u64, hash, d.mask),
                           UnsignedHash(u64, hash))
  IN  [d EXCEPT !.table = [d.table EXCEPT ![i + 1] = Entry(key, hash, value)],
                !.fill  = d.fill + 1,
                !.used  = d.used + 1]

\* mutant: the conservative growth of large tables is used for every table
MinUsed_Double(u) == 2 * u

MinUsed(u) == IF u <= LargeTableThreshold THEN 4 * u ELSE 2 * u

\* mutant: the loop stops as soon as newSize reaches minused
RECURSIVE GrowLoop_NotStrict(_, _)
GrowLoop_NotStrict(newSize, minused) ==
  IF newSize < minused THEN GrowLoop_NotStrict(newSize * 2, minused)
                       ELSE newSize

RECURSIVE GrowLoop(_, _)
GrowLoop(newSize, minused) ==
  IF newSize <= minused THEN GrowLoop(newSize * 2, minused) ELSE newSize

NewSize(u) == GrowLoop(PyDictMinSize, MinUsed(u))

\* mutant: the old slots are replayed from the last index down to the first
RECURSIVE ResizeLoop_Descending(_, _, _, _)
ResizeLoop_Descending(d, u64, old, j) ==
  IF j > Len(old) THEN d
  ELSE LET slot == old[Len(old) + 1 - j]
       IN  ResizeLoop_Descending(
             IF slot.occupied
               THEN InsertClean(d, u64, slot.key, slot.hash, slot.value)
               ELSE d,
             u64, old, j + 1)

RECURSIVE ResizeLoop(_, _, _, _)
ResizeLoop(d, u64, old, j) ==
  IF j > Len(old) THEN d
  ELSE ResizeLoop(IF old[j].occupied
                    THEN InsertClean(d, u64, old[j].key, old[j].hash,
                                     old[j].value)
                    ELSE d,
                  u64, old, j + 1)

\* mutant: _resize does not update this._size
Resize_KeepsSize(d, u64) ==
  LET newSize == NewSize(d.used)
  IN  ResizeLoop([table |-> EmptyTable(newSize),
                  size  |-> d.size,
                  mask  |-> newSize - 1,
                  fill  |-> 0,
                  used  |-> 0],
                 u64, d.table, 1)

Resize(d, u64) ==
  LET newSize == NewSize(d.used)
  IN  ResizeLoop([table |-> EmptyTable(newSize),
                  size  |-> newSize,
                  mask  |-> newSize - 1,
                  fill  |-> 0,
                  used  |-> 0],
                 u64, d.table, 1)

\* mutant: the table never grows
NeedsResize_Never(f, sz) == FALSE

\* mutant: the table grows one insert too late
NeedsResize_Late(f, sz) == f * 3 >= (sz * 2) + 3

NeedsResize(f, sz) == f * 3 >= sz * 2

\* mutant: the slots are scanned from the last index down to the first
RECURSIVE Keys_Descending(_)
Keys_Descending(tbl) ==
  IF tbl = << >> THEN << >>
  ELSE Keys_Descending(Tail(tbl))
         \o (IF tbl[1].occupied THEN <<tbl[1].key>> ELSE << >>)

\* mutant: a slot whose key is the empty string is skipped like an empty slot
RECURSIVE Keys_SkipsEmptyKey(_)
Keys_SkipsEmptyKey(tbl) ==
  IF tbl = << >> THEN << >>
  ELSE (IF tbl[1].occupied /\ tbl[1].key # << >> THEN <<tbl[1].key>>
                                                  ELSE << >>)
         \o Keys_SkipsEmptyKey(Tail(tbl))

RECURSIVE Keys(_)
Keys(tbl) ==
  IF tbl = << >> THEN << >>
  ELSE (IF tbl[1].occupied THEN <<tbl[1].key>> ELSE << >>) \o Keys(Tail(tbl))

(***************************************************************************)
(* Py2Dict and py2DictOrder as functions.  A dict is the record            *)
(* [table, size, mask, fill, used]; this._hash and this._use64 are fixed   *)
(* by the bits argument of the constructor.                                *)
(***************************************************************************)
\* the fields new Py2Dict(bits) sets, whatever bits is
NewDict ==
  [table |-> EmptyTable(PyDictMinSize),
   size  |-> PyDictMinSize,
   mask  |-> 7,
   fill  |-> 0,
   used  |-> 0]

\* d.set(key, true) on a dict constructed with bits = b
DictSet(d, b, key) ==
  LET u64  == (b # 32)
      hash == HashOf(b, key)
      idx  == FindSlot(d.table, d.mask, u64, key, hash)
  IN  IF ~d.table[idx + 1].occupied
        THEN LET stored == [d EXCEPT !.table[idx + 1] = Entry(key, hash, TRUE),
                                     !.fill = d.fill + 1,
                                     !.used = d.used + 1]
             IN  IF NeedsResize(stored.fill, stored.size)
                   THEN Resize(stored, u64)
                   ELSE stored
        ELSE [d EXCEPT !.table[idx + 1].value = TRUE]

\* for (const s of strings) d.set(s, true), from the i-th string on
RECURSIVE SetAll(_, _, _, _)
SetAll(d, b, ss, i) ==
  IF i > Len(ss) THEN d ELSE SetAll(DictSet(d, b, ss[i]), b, ss, i + 1)

\* py2DictOrder(strings, bits)
py2DictOrder(ss, b) == Keys(SetAll(NewDict, b, ss, 1).table)

(***************************************************************************)
(* py2DictOrder.                                                           *)
(***************************************************************************)
\* number of entries of strings that repeat an earlier entry
Dups(ss) == Len(ss) - Cardinality(Range(ss))

\* The strings that may come next in the input.  An input of the short
\* family is the strings of ShortFree in any order and then those of
\* ShortTail, MaxShort distinct strings at most; an input of the long family
\* is the first strings of LongKeys, MaxLong at most.  Either may repeat an
\* earlier string, MaxDup times at most: any earlier string in the short
\* family, the first or the latest string in the long family.
Choices(ss) ==
  LET seen == Range(ss)
      n    == Cardinality(seen)
      t    == n - Cardinality(ShortFree)
      new  == IF ss = << >> THEN ShortFree \cup {LongKeys[1]}
              ELSE IF ss[1] \in ShortFree
                THEN IF ShortFree \ seen # {} THEN ShortFree \ seen
                     ELSE IF n < MaxShort /\ t < Len(ShortTail)
                       THEN {ShortTail[t + 1]}
                       ELSE {}
              ELSE IF n < MaxLong /\ n < Len(LongKeys)
                THEN {LongKeys[n + 1]}
                ELSE {}
      old  == IF ss = << >> THEN {}
              ELSE IF ss[1] \in ShortFree THEN seen
              ELSE {ss[1], ss[Len(ss)]}
  IN  new \cup (IF Dups(ss) < MaxDup THEN old ELSE {})

NoCall == [fn |-> "none"]

\* no call of _findSlot, _resize or _insertClean is under way
IdleProbe ==
  [op |-> "idle", key |-> << >>, hash |-> SignedOfInt(0, 8), i |-> 0,
   perturb |-> SignedOfInt(0, 8), steps |-> 0, pending |-> << >>]

\* new Py2Dict(b)
Construct(b) ==
  /\ bits = b
  /\ use64 = (b # 32)
  /\ size = PyDictMinSize
  /\ mask = 7
  /\ table = EmptyTable(PyDictMinSize)
  /\ fill = 0
  /\ used = 0
  /\ strings = << >>
  /\ pc = "insert"
  /\ result = << >>
  /\ resizes = 0
  /\ oldTable = << >>
  /\ firsts = [d |-> NewDict, resizes |-> 0]
  /\ probe = IdleProbe

\* a caller that has not called py2DictOrder
IdleCall ==
  [state |-> "idle", bits |-> 64, strings |-> << >>, d |-> NewDict, i |-> 1,
   result |-> << >>, mixed |-> FALSE]

NoCalls ==
  /\ calls = <<IdleCall, IdleCall>>
  /\ log = << >>

\* ancientBugs = null
NullConfig == [given |-> FALSE, ordering |-> << >>]

\* generateSpec has not been called
NoDocument ==
  /\ quads = << >>
  /\ vocab = << >>
  /\ stage = "none"
  /\ candidates = << >>
  /\ props = << >>
  /\ ancient = NullConfig

Init ==
  /\ \E b \in RequestedWidths : Construct(b)
  /\ call = NoCall
  /\ ret = << >>
  /\ NoCalls
  /\ NoDocument

\* d.set(key, true)
Set(key) ==
  /\ pc = "insert"
  /\ LET hash == HashOf(bits, key)
         idx  == FindSlot(table, mask, use64, key, hash)
     IN  IF ~table[idx + 1].occupied
           THEN LET stored == [table |-> [table EXCEPT ![idx + 1] =
                                            Entry(key, hash, TRUE)],
                               size  |-> size,
                               mask  |-> mask,
                               fill  |-> fill + 1,
                               used  |-> used + 1]
                    grow   == NeedsResize(stored.fill, stored.size)
                    d      == IF grow THEN Resize(stored, use64) ELSE stored
                IN  /\ table' = d.table
                    /\ size' = d.size
                    /\ mask' = d.mask
                    /\ fill' = d.fill
                    /\ used' = d.used
                    /\ resizes' = IF grow THEN resizes + 1 ELSE resizes
                    /\ oldTable' = IF grow THEN stored.table ELSE oldTable
           ELSE /\ table' = [table EXCEPT ![idx + 1].value = TRUE]
                /\ UNCHANGED <<size, mask, fill, used, resizes, oldTable>>
  /\ strings' = Append(strings, key)
  /\ firsts' = IF key \in Range(strings) THEN firsts
               ELSE LET d == DictSet(firsts.d, bits, key)
                    IN  [d       |-> d,
                         resizes |-> IF d.size # firsts.d.size
                                       THEN firsts.resizes + 1
                                       ELSE firsts.resizes]
  /\ UNCHANGED <<bits, use64, pc, result, probe, call, ret, callVars, genVars>>

\* return d.keys()
ReadKeys ==
  /\ pc = "insert"
  /\ result' = Keys(table)
  /\ pc' = "done"
  /\ UNCHANGED <<bits, use64, size, mask, table, fill, used, strings,
                 resizes, oldTable, firsts, probe, call, ret, callVars,
                 genVars>>

Next ==
  \/ \E key \in Choices(strings) : Set(key)
  \/ ReadKeys

Spec == Init /\ [][Next]_vars

(***************************************************************************)
(* set, one loop iteration at a time.  probe is the call under way:        *)
(* "find" for _findSlot and "clean" for _insertClean, with their key,      *)
(* hash, i and perturb and the number of loop iterations made so far;      *)
(* "resize" for _resize between two calls of _insertClean, with the        *)
(* entries of oldTable it has still to re-insert.  perturb is a signed     *)
(* value, as a BigInt is.                                                  *)
(***************************************************************************)
\* the count of loop iterations stops at this value
StepCap == 200

\* mutant: perturb starts at the signed hash
InitialPerturb_Signed(u64, hash) ==
  [neg |-> hash.neg, mag |-> WordFit(hash.mag, IF u64 THEN 8 ELSE 4)]

\* perturb of lines 558 and 601
InitialPerturb(u64, hash) == [neg |-> FALSE, mag |-> UnsignedHash(u64, hash)]

\* perturb >>= 5n: the floor of perturb / 32
ShiftPerturb(p) ==
  IF p.neg THEN [neg |-> TRUE, mag |-> WordShr5(WordAddNat(p.mag, 31))]
           ELSE [neg |-> FALSE, mag |-> WordShr5(p.mag)]

\* ((i * 5n) + perturb + 1n) & mask, for a perturb of either sign
StepIndex(i, p, m) ==
  IF p.neg
    THEN (((i * 5) + 1) + ((m + 1) - (WordLow(p.mag) % (m + 1)))) % (m + 1)
    ELSE NextIndex(i, p.mag, m)

\* lines 557-558 or 600-601
StartProbe(op, key, hash, pending) ==
  [op      |-> op,
   key     |-> key,
   hash    |-> hash,
   i       |-> FirstIndex(use64, hash, mask),
   perturb |-> InitialPerturb(use64, hash),
   steps   |-> 0,
   pending |-> pending]

\* lines 562-563 or 603-604
StepProbe ==
  [probe EXCEPT !.i       = StepIndex(probe.i, probe.perturb, mask),
                !.perturb = ShiftPerturb(probe.perturb),
                !.steps   = IF probe.steps < StepCap THEN probe.steps + 1
                                                     ELSE StepCap]

\* The strings that may come next in an input of set run step by step: the
\* new strings of Choices and, once and as the last string of the input,
\* any string given before.
ProbeChoices(ss) ==
  IF Dups(ss) > 0 THEN {}
  ELSE (Choices(ss) \ Range(ss)) \cup Range(ss)

\* d.set(key, true) up to the first test of _findSlot
BeginSet(key) ==
  /\ pc = "insert"
  /\ probe.op = "idle"
  /\ probe' = StartProbe("find", key, HashOf(bits, key), << >>)
  /\ strings' = Append(strings, key)
  /\ UNCHANGED <<bits, use64, size, mask, table, fill, used, pc, result,
                 resizes, oldTable, firsts, call, ret, callVars, genVars>>

\* one iteration of the loop of lines 561-566 that does not return
FindStep ==
  /\ probe.op = "find"
  /\ table[probe.i + 1].occupied
  /\ table[probe.i + 1].key # probe.key
  /\ probe' = StepProbe
  /\ UNCHANGED <<bits, use64, size, mask, table, fill, used, strings, pc,
                 result, resizes, oldTable, firsts, call, ret, callVars,
                 genVars>>

\* _findSlot returns and set stores the key (lines 572-580); when the table
\* has to grow, _resize runs up to its loop (lines 584-592)
FindDone ==
  /\ probe.op = "find"
  /\ LET idx == probe.i
     IN  IF ~table[idx + 1].occupied
           THEN LET stored == [table EXCEPT ![idx + 1] =
                                 Entry(probe.key, probe.hash, TRUE)]
                IN  IF NeedsResize(fill + 1, size)
                      THEN LET newSize == NewSize(used + 1)
                           IN  /\ table' = EmptyTable(newSize)
                               /\ size' = newSize
                               /\ mask' = newSize - 1
                               /\ fill' = 0
                               /\ used' = 0
                               /\ resizes' = resizes + 1
                               /\ oldTable' = stored
                               /\ probe' = [IdleProbe EXCEPT
                                              !.op = "resize",
                                              !.pending = stored]
                      ELSE /\ table' = stored
                           /\ fill' = fill + 1
                           /\ used' = used + 1
                           /\ probe' = IdleProbe
                           /\ UNCHANGED <<size, mask, resizes, oldTable>>
           ELSE /\ table[idx + 1].key = probe.key
                /\ table' = [table EXCEPT ![idx + 1].value = TRUE]
                /\ probe' = IdleProbe
                /\ UNCHANGED <<size, mask, fill, used, resizes, oldTable>>
  /\ UNCHANGED <<bits, use64, strings, pc, result, firsts, call, ret,
                 callVars, genVars>>

\* one iteration of the loop of lines 593-595: an empty slot of oldTable is
\* passed over, for another _insertClean is called and runs up to the first
\* test of its loop
ResizeNext ==
  /\ probe.op = "resize"
  /\ probe.pending # << >>
  /\ LET slot == Head(probe.pending)
     IN  probe' = IF slot.occupied
                    THEN StartProbe("clean", slot.key, slot.hash,
                                    Tail(probe.pending))
                    ELSE [probe EXCEPT !.pending = Tail(probe.pending)]
  /\ UNCHANGED <<bits, use64, size, mask, table, fill, used, strings, pc,
                 result, resizes, oldTable, firsts, call, ret, callVars,
                 genVars>>

\* the loop of lines 593-595 ends, and _resize and set return
ResizeDone ==
  /\ probe.op = "resize"
  /\ probe.pending = << >>
  /\ probe' = IdleProbe
  /\ UNCHANGED <<bits, use64, size, mask, table, fill, used, strings, pc,
                 result, resizes, oldTable, firsts, call, ret, callVars,
                 genVars>>

\* one iteration of the loop of lines 602-605
CleanStep ==
  /\ probe.op = "clean"
  /\ table[probe.i + 1].occupied
  /\ probe' = StepProbe
  /\ UNCHANGED <<bits, use64, size, mask, table, fill, used, strings, pc,
                 result, resizes, oldTable, firsts, call, ret, callVars,
                 genVars>>

\* lines 606-608: _insertClean stores the entry and returns
CleanDone ==
  /\ probe.op = "clean"
  /\ ~table[probe.i + 1].occupied
  /\ table' = [table EXCEPT ![probe.i + 1] =
                 Entry(probe.key, probe.hash, TRUE)]
  /\ fill' = fill + 1
  /\ used' = used + 1
  /\ probe' = [IdleProbe EXCEPT !.op = "resize", !.pending = probe.pending]
  /\ UNCHANGED <<bits, use64, size, mask, strings, pc, result, resizes,
                 oldTable, firsts, call, ret, callVars, genVars>>

\* the steps set takes by itself once it has been called
RunSet ==
  \/ FindStep
  \/ FindDone
  \/ ResizeNext
  \/ ResizeDone
  \/ CleanStep
  \/ CleanDone

NextProbe ==
  \/ \E key \in ProbeChoices(strings) : BeginSet(key)
  \/ RunSet

\* set runs to its end without a pause: JavaScript runs a call to completion
SpecProbe == Init /\ [][NextProbe]_vars /\ WF_vars(RunSet)

(***************************************************************************)
(* The capacity computation of _resize, applied on its own.                *)
(***************************************************************************)
\* largest used count of the small inputs
MaxUsed == 70
\* how far around LargeTableThreshold the large inputs reach
ThresholdSpan == 3

UsedInputs ==
  (0..MaxUsed) \cup
  ((LargeTableThreshold - ThresholdSpan)..(LargeTableThreshold + ThresholdSpan))

InitNewSize ==
  /\ Construct(64)
  /\ call \in { [fn |-> "newSize", used |-> u] : u \in UsedInputs }
  /\ ret = << >>
  /\ NoCalls
  /\ NoDocument

ApplyNewSize ==
  /\ call.fn = "newSize"
  /\ ret = << >>
  /\ ret' = <<NewSize(call.used)>>
  /\ UNCHANGED <<dictVars, call, callVars, genVars>>

NextNewSize == ApplyNewSize

SpecNewSize == InitNewSize /\ [][NextNewSize]_vars

(***************************************************************************)
(* The hash functions, applied on their own.                               *)
(***************************************************************************)
\* longest string over HashAlphabet that is hashed
MaxHashLen == 2

\* code units: NUL, "A", "a", "b", DEL, U+FFFF
HashAlphabet == {0, 65, 97, 98, 127, 65535}

RECURSIVE StringsUpTo(_)
StringsUpTo(n) ==
  IF n = 0 THEN { << >> }
  ELSE LET shorter == StringsUpTo(n - 1)
       IN  shorter \cup { Append(w, c) : w \in shorter, c \in HashAlphabet }

HashInputs == StringsUpTo(MaxHashLen) \cup {KeyM32, KeyM64}

InitHash ==
  /\ Construct(64)
  /\ call \in { [fn |-> "hash", bits |-> b, str |-> w] :
                  b \in LegalWidths, w \in HashInputs }
  /\ ret = << >>
  /\ NoCalls
  /\ NoDocument

\* py2Hash32(str) or py2Hash64(str)
ApplyHash ==
  /\ call.fn = "hash"
  /\ ret = << >>
  /\ ret' = <<IF call.bits = 32 THEN py2Hash32(call.str)
                                ELSE py2Hash64(call.str)>>
  /\ UNCHANGED <<dictVars, call, callVars, genVars>>

NextHash == ApplyHash

SpecHash == InitHash /\ [][NextHash]_vars

(***************************************************************************)
(* Calls of py2DictOrder by two callers.  A caller's call is the record    *)
(* of its arguments and locals: bits, strings, the dict d, the position i  *)
(* of the loop of line 627 and the returned value.  The steps of the two   *)
(* calls are taken in any order.                                           *)
(***************************************************************************)
\* most calls of py2DictOrder in one behaviour
MaxCalls == 3

CallIds == {1, 2}

\* the lists the callers pass: "a" "b" "ab" "a" "aa" "ba" "";
\* "ab" "b" "a"; the empty list
CallLists ==
  { << <<97>>, <<98>>, <<97, 98>>, <<97>>, <<97, 97>>, <<98, 97>>,
       << >> >>,
    << <<97, 98>>, <<98>>, <<97>> >>,
    << >> }

\* mutant: the dict outlives the call and is used again by the next one
BeginCall_KeepsDict(prev, ss, b) ==
  [state |-> "running", bits |-> b, strings |-> ss, d |-> prev.d, i |-> 1,
   result |-> << >>, mixed |-> FALSE]

\* const d = new Py2Dict(bits), in the call that follows the call prev of
\* the same caller
BeginCall(prev, ss, b) ==
  [state |-> "running", bits |-> b, strings |-> ss, d |-> NewDict, i |-> 1,
   result |-> << >>, mixed |-> FALSE]

\* mutant: d is one variable of the module, the dict of the first caller
LocalDict_Global(cs, c) == cs[1].d

\* d, the local constant of the call of caller c
LocalDict(cs, c) == cs[c].d

\* the number of calls made so far
CallsMade ==
  Len(log) + Cardinality({ c \in CallIds : calls[c].state = "running" })

\* py2DictOrder(ss, b) is called by caller c
Begin(c, ss, b) ==
  /\ calls[c].state # "running"
  /\ CallsMade < MaxCalls
  /\ calls' = [calls EXCEPT ![c] = BeginCall(calls[c], ss, b)]
  /\ UNCHANGED <<dictVars, call, ret, log, genVars>>

\* one iteration of the loop of line 627 in the call of caller c
Insert(c) ==
  /\ calls[c].state = "running"
  /\ calls[c].i <= Len(calls[c].strings)
  /\ LET k     == calls[c]
         other == calls[3 - c]
     IN  calls' = [calls EXCEPT ![c] =
                     [k EXCEPT !.d = DictSet(LocalDict(calls, c), k.bits,
                                              k.strings[k.i]),
                               !.i = k.i + 1,
                               !.mixed = k.mixed \/ (other.state = "running"
                                                      /\ other.i > 1)]]
  /\ UNCHANGED <<dictVars, call, ret, log, genVars>>

\* return d.keys() in the call of caller c
Return(c) ==
  /\ calls[c].state = "running"
  /\ calls[c].i > Len(calls[c].strings)
  /\ LET k == [calls[c] EXCEPT !.state = "returned",
                               !.result = Keys(LocalDict(calls, c).table)]
     IN  /\ calls' = [calls EXCEPT ![c] = k]
         /\ log' = Append(log, [bits |-> k.bits, strings |-> k.strings,
                                result |-> k.result])
  /\ UNCHANGED <<dictVars, call, ret, genVars>>

InitCalls ==
  /\ Construct(64)
  /\ call = NoCall
  /\ ret = << >>
  /\ NoCalls
  /\ NoDocument

NextCalls ==
  \/ \E c \in CallIds, ss \in CallLists, b \in LegalWidths : Begin(c, ss, b)
  \/ \E c \in CallIds : Insert(c)
  \/ \E c \in CallIds : Return(c)

SpecCalls == InitCalls /\ [][NextCalls]_vars

(***************************************************************************)
(* Documents.  A quad is [s, p, o]; s and o of a relationship are URIs     *)
(* (sequences of code units), p stands for the predicate URI and the o of  *)
(* an rdf:type quad for the type URI.                                      *)
(***************************************************************************)
\* most relationship quads of a document
MaxQuads == 3

Quad(s, p, o) == [s |-> s, p |-> p, o |-> o]

\* the quads every document starts with: the namespace that defines A, the
\* types of the classes A, C, B and of the properties q, p, and the label
\* of B; "n/r" has no type
Prelude ==
  << Quad(ClassA, "rdfs:isDefinedBy", Ns),
     Quad(ClassA, "rdf:type", "rdfs:Class"),
     Quad(ClassC, "rdf:type", "owl:Class"),
     Quad(ClassB, "rdf:type", "rdfs:Class"),
     Quad(PropQ, "rdf:type", "rdf:Property"),
     Quad(PropP, "rdf:type", "owl:ObjectProperty"),
     Quad(ClassB, "rdfs:label", LabelBee) >>

\* the quads a document goes on with, in any order and number up to MaxQuads
RelationQuads ==
  { Quad(PropP, "rdfs:domain", ClassA),
    Quad(PropQ, "rdfs:domain", ClassA),
    Quad(PropR, "rdfs:domain", ClassA),
    Quad(PropP, "rdfs:range", ClassA),
    Quad(PropQ, "rdfs:range", ClassA),
    Quad(ClassB, "rdfs:subClassOf", ClassA),
    Quad(ClassC, "rdfs:subClassOf", ClassA),
    Quad(ClassA, "owl:disjointWith", ClassB),
    Quad(ClassA, "owl:disjointWith", ForeignT) }

RECURSIVE SeqsUpTo(_, _)
SeqsUpTo(S, n) ==
  IF n = 0 THEN { << >> }
  ELSE LET shorter == SeqsUpTo(S, n - 1)
       IN  shorter \cup { Append(t, x) : t \in shorter, x \in S }

Documents == { Prelude \o t : t \in SeqsUpTo(RelationQuads, MaxQuads) }

(***************************************************************************)
(* detectNamespace.                                                        *)
(***************************************************************************)
\* counts.get(ns) after the loop of lines 723-728
RECURSIVE DefinedByCount(_, _)
DefinedByCount(qs, ns) ==
  IF qs = << >> THEN 0
  ELSE (IF qs[1].p = "rdfs:isDefinedBy" /\ qs[1].o = ns THEN 1 ELSE 0)
         + DefinedByCount(Tail(qs), ns)

\* the keys of counts, in insertion order
RECURSIVE DefinedByKeys(_, _)
DefinedByKeys(qs, keys) ==
  IF qs = << >> THEN keys
  ELSE DefinedByKeys(Tail(qs),
                     IF qs[1].p = "rdfs:isDefinedBy" /\ qs[1].o \notin Range(keys)
                       THEN Append(keys, qs[1].o)
                       ELSE keys)

\* the loop of lines 732-734
RECURSIVE BestNamespace(_, _, _, _)
BestNamespace(keys, qs, best, bestCount) ==
  IF keys = << >> THEN best
  ELSE LET count == DefinedByCount(qs, keys[1])
       IN  IF count > bestCount
             THEN BestNamespace(Tail(keys), qs, keys[1], count)
             ELSE BestNamespace(Tail(keys), qs, best, bestCount)

detectNamespace(qs) == BestNamespace(DefinedByKeys(qs, << >>), qs, << >>, 0)

(***************************************************************************)
(* extractVocabulary, the part that builds vocab.classes.                  *)
(***************************************************************************)
ClassTypes == {"rdfs:Class", "owl:Class"}

PropertyTypes ==
  {"rdf:Property", "owl:ObjectProperty", "owl:DatatypeProperty",
   "owl:FunctionalProperty", "owl:InverseFunctionalProperty",
   "owl:AnnotationProperty"}

\* u.startsWith(prefix)
StartsWith(u, prefix) ==
  Len(u) >= Len(prefix) /\ SubSeq(u, 1, Len(prefix)) = prefix

\* u.slice(k)
Slice(u, k) == SubSeq(u, k + 1, Len(u))

\* u.lastIndexOf(c), searched from the i-th code unit down
RECURSIVE LastIndexOf(_, _, _)
LastIndexOf(u, c, i) ==
  IF i = 0 THEN -1
  ELSE IF u[i] = c THEN i - 1
  ELSE LastIndexOf(u, c, i - 1)

localNameFromUri(uri) ==
  LET hashIdx  == LastIndexOf(uri, 35, Len(uri))
      slashIdx == LastIndexOf(uri, 47, Len(uri))
  IN  Slice(uri, (IF hashIdx > slashIdx THEN hashIdx ELSE slashIdx) + 1)

RECURSIVE getValues(_, _, _)
getValues(qs, subject, predicate) ==
  IF qs = << >> THEN << >>
  ELSE (IF qs[1].s = subject /\ qs[1].p = predicate THEN <<qs[1].o>>
                                                     ELSE << >>)
         \o getValues(Tail(qs), subject, predicate)

\* getValue(qs, subject, predicate) || default
getValueOr(qs, subject, predicate, default) ==
  LET vs == getValues(qs, subject, predicate)
  IN  IF vs = << >> \/ vs[1] = << >> THEN default ELSE vs[1]

\* set.add(x), the set kept as the sequence of its elements in insertion
\* order
SetAdd(set, x) == IF x \in Range(set) THEN set ELSE Append(set, x)

\* [...new Set(xs)]
RECURSIVE SetOf(_, _)
SetOf(set, xs) ==
  IF xs = << >> THEN set ELSE SetOf(SetAdd(set, xs[1]), Tail(xs))

\* classUris or propertyUris: the loop of lines 84-91 for one set of types
RECURSIVE TypedUris(_, _, _, _)
TypedUris(typeQuads, ns, types, set) ==
  IF typeQuads = << >> THEN set
  ELSE LET q == typeQuads[1]
       IN  TypedUris(Tail(typeQuads), ns, types,
                     IF ns # << >> /\ ~StartsWith(q.s, ns) THEN set
                     ELSE IF q.o \in types THEN SetAdd(set, q.s)
                     ELSE set)

\* the fields uri, localName, status, domain and range of the property
\* objects
RECURSIVE Properties(_, _, _)
Properties(qs, ns, propertyUris) ==
  IF propertyUris = << >> THEN << >>
  ELSE LET uri == propertyUris[1]
       IN  << [uri       |-> uri,
               localName |-> Slice(uri, Len(ns)),
               status    |-> getValueOr(qs, uri, "vs:term_status", << >>),
               domain    |-> SetOf(<< >>, getValues(qs, uri, "rdfs:domain")),
               range     |-> SetOf(<< >>, getValues(qs, uri, "rdfs:range"))] >>
             \o Properties(qs, ns, Tail(propertyUris))

\* mutant: every property is indexed under every class
RECURSIVE PropertyIndex_All(_, _, _, _)
PropertyIndex_All(properties, field, classUri, set) ==
  IF properties = << >> THEN set
  ELSE PropertyIndex_All(Tail(properties), field, classUri,
                         SetAdd(set, properties[1].localName))

\* domainIndex.get(classUri) or rangeIndex.get(classUri) as built by lines
\* 151-160, field being "domain" or "range"
RECURSIVE PropertyIndex(_, _, _, _)
PropertyIndex(properties, field, classUri, set) ==
  IF properties = << >> THEN set
  ELSE LET prop == properties[1]
       IN  PropertyIndex(Tail(properties), field, classUri,
                         IF classUri \in Range(prop[field])
                           THEN SetAdd(set, prop.localName)
                           ELSE set)

\* one entry of uri.slice(ns.length) for every sup of supers that is classUri
RECURSIVE PushForEach(_, _, _, _)
PushForEach(list, supers, classUri, ln) ==
  IF supers = << >> THEN list
  ELSE PushForEach(IF supers[1] = classUri THEN Append(list, ln) ELSE list,
                   Tail(supers), classUri, ln)

\* subClassIndex.get(classUri) as built by lines 163-170
RECURSIVE SubClassIndex(_, _, _, _, _)
SubClassIndex(qs, ns, classUris, classUri, list) ==
  IF classUris = << >> THEN list
  ELSE LET uri == classUris[1]
       IN  SubClassIndex(qs, ns, Tail(classUris), classUri,
                         PushForEach(list,
                                     getValues(qs, uri, "rdfs:subClassOf"),
                                     classUri, Slice(uri, Len(ns))))

formatRef(qs, ns, u) ==
  LET localName == localNameFromUri(u)
      isLocal   == ns # << >> /\ StartsWith(u, ns)
  IN  [uri       |-> u,
       localName |-> IF isLocal THEN Slice(u, Len(ns)) ELSE localName,
       label     |-> getValueOr(qs, u, "rdfs:label", localName),
       isLocal   |-> isLocal]

RECURSIVE FormatRefs(_, _, _)
FormatRefs(qs, ns, us) ==
  IF us = << >> THEN << >>
  ELSE <<formatRef(qs, ns, us[1])>> \o FormatRefs(qs, ns, Tail(us))

\* the entries { localName, label } of hasSubClass
RECURSIVE SubClassEntries(_, _, _)
SubClassEntries(qs, ns, lns) ==
  IF lns = << >> THEN << >>
  ELSE << [localName |-> lns[1],
           label     |-> getValueOr(qs, ns \o lns[1], "rdfs:label", lns[1])] >>
         \o SubClassEntries(qs, ns, Tail(lns))

\* the class object of lines 172-198
ClassObject(qs, ns, properties, classUris, uri) ==
  LET localName == Slice(uri, Len(ns))
  IN  [uri        |-> uri,
       localName  |-> localName,
       label      |-> getValueOr(qs, uri, "rdfs:label", localName),
       status     |-> getValueOr(qs, uri, "vs:term_status", << >>),
       subClassOf |-> getValues(qs, uri, "rdfs:subClassOf"),
       disjointWith |-> getValues(qs, uri, "owl:disjointWith"),
       disjointWithFormatted |->
         FormatRefs(qs, ns, getValues(qs, uri, "owl:disjointWith")),
       hasSubClass |->
         SubClassEntries(qs, ns,
                         SubClassIndex(qs, ns, classUris, uri, << >>)),
       inDomainOf |-> PropertyIndex(properties, "domain", uri, << >>),
       inRangeOf  |-> PropertyIndex(properties, "range", uri, << >>)]

RECURSIVE ClassObjects(_, _, _, _, _)
ClassObjects(qs, ns, properties, classUris, rest) ==
  IF rest = << >> THEN << >>
  ELSE <<ClassObject(qs, ns, properties, classUris, rest[1])>>
         \o ClassObjects(qs, ns, properties, classUris, Tail(rest))

\* extractVocabulary(qs, { namespace: ns }).classes
extractVocabulary(qs, ns) ==
  LET typeQuads    == SelectSeq(qs, LAMBDA q : q.p = "rdf:type")
      classUris    == TypedUris(typeQuads, ns, ClassTypes, << >>)
      propertyUris == TypedUris(typeQuads, ns, PropertyTypes, << >>)
      properties   == Properties(qs, ns, propertyUris)
  IN  ClassObjects(qs, ns, properties, classUris, classUris)

\* extractVocabulary(qs, { namespace: ns }).properties
extractProperties(qs, ns) ==
  LET typeQuads    == SelectSeq(qs, LAMBDA q : q.p = "rdf:type")
      propertyUris == TypedUris(typeQuads, ns, PropertyTypes, << >>)
  IN  Properties(qs, ns, propertyUris)


(***************************************************************************)
(* reorderByList.  key is "none" for the call without a key (the items are *)
(* strings) and the name of a field for the call with one (the items are   *)
(* objects).                                                               *)
(***************************************************************************)
\* key ? item[key] : item
NameOf(item, key) == IF key = "none" THEN item ELSE item[key]

\* items.indexOf(name) or items.findIndex(item => item[key] === name),
\* searched from the i-th item on
RECURSIVE IndexOfName(_, _, _, _)
IndexOfName(items, name, key, i) ==
  IF i > Len(items) THEN -1
  ELSE IF NameOf(items[i], key) = name THEN i - 1
  ELSE IndexOfName(items, name, key, i + 1)

\* result after the loop of lines 481-488
RECURSIVE ReorderNamed(_, _, _)
ReorderNamed(items, order, key) ==
  IF order = << >> THEN << >>
  ELSE LET idx == IndexOfName(items, order[1], key, 1)
       IN  (IF idx # -1 THEN <<items[idx + 1]>> ELSE << >>)
             \o ReorderNamed(items, Tail(order), key)

\* mutant: every item is appended, named in the reference order or not
RECURSIVE ReorderRest_All(_, _, _)
ReorderRest_All(items, order, key) ==
  IF items = << >> THEN << >>
  ELSE <<items[1]>> \o ReorderRest_All(Tail(items), order, key)

\* what the loop of lines 490-495 pushes
RECURSIVE ReorderRest(_, _, _)
ReorderRest(items, order, key) ==
  IF items = << >> THEN << >>
  ELSE (IF NameOf(items[1], key) \notin Range(order) THEN <<items[1]>>
                                                      ELSE << >>)
         \o ReorderRest(Tail(items), order, key)

reorderByList(items, order, key) ==
  ReorderNamed(items, order, key) \o ReorderRest(items, order, key)

(***************************************************************************)
(* applyAncientBugs.  A config is [given, ordering]: given tells a config  *)
(* from null, ordering is config.ordering, a function from the local names *)
(* of classes to override objects; an override object has the fields the   *)
(* config sets, each a list of names.                                      *)
(***************************************************************************)
\* the body of the loop of lines 454-470 for one class
OverrideClass(cls, ordering) ==
  IF cls.localName \notin DOMAIN ordering THEN cls
  ELSE LET overrides == ordering[cls.localName]
           set(f)    == f \in DOMAIN overrides
           c1 == IF set("inDomainOf")
                   THEN [cls EXCEPT !.inDomainOf =
                           reorderByList(cls.inDomainOf, overrides.inDomainOf,
                                         "none")]
                   ELSE cls
           c2 == IF set("inRangeOf")
                   THEN [c1 EXCEPT !.inRangeOf =
                           reorderByList(c1.inRangeOf, overrides.inRangeOf,
                                         "none")]
                   ELSE c1
           c3 == IF set("hasSubClass")
                   THEN [c2 EXCEPT !.hasSubClass =
                           reorderByList(c2.hasSubClass, overrides.hasSubClass,
                                         "localName")]
                   ELSE c2
       IN  IF set("disjointWith")
             THEN [c3 EXCEPT !.disjointWithFormatted =
                     reorderByList(c3.disjointWithFormatted,
                                   overrides.disjointWith, "localName")]
             ELSE c3

\* vocab.classes after applyAncientBugs(vocab, config)
RECURSIVE applyAncientBugs(_, _)
applyAncientBugs(classes, config) ==
  IF classes = << >> THEN << >>
  ELSE <<OverrideClass(classes[1], config.ordering)>>
         \o applyAncientBugs(Tail(classes), config)

(***************************************************************************)
(* generateSpec: the sort of vocab.classes, applyPy2Ordering and the empty *)
(* placeholders.                                                           *)
(***************************************************************************)
\* stands for the number NaN; no rank and no difference of ranks is this
\* number
NaN == -99999

\* the names of the members statusOrder inherits from Object.prototype:
\* constructor, __defineGetter__, __defineSetter__, hasOwnProperty,
\* __lookupGetter__, __lookupSetter__, isPrototypeOf, propertyIsEnumerable,
\* toString, valueOf, __proto__, toLocaleString
PrototypeMembers ==
  { <<99, 111, 110, 115, 116, 114, 117, 99, 116, 111, 114>>,
    <<95, 95, 100, 101, 102, 105, 110, 101, 71, 101, 116, 116, 101, 114, 95, 95>>,
    <<95, 95, 100, 101, 102, 105, 110, 101, 83, 101, 116, 116, 101, 114, 95, 95>>,
    <<104, 97, 115, 79, 119, 110, 80, 114, 111, 112, 101, 114, 116, 121>>,
    <<95, 95, 108, 111, 111, 107, 117, 112, 71, 101, 116, 116, 101, 114, 95, 95>>,
    <<95, 95, 108, 111, 111, 107, 117, 112, 83, 101, 116, 116, 101, 114, 95, 95>>,
    <<105, 115, 80, 114, 111, 116, 111, 116, 121, 112, 101, 79, 102>>,
    <<112, 114, 111, 112, 101, 114, 116, 121, 73, 115, 69, 110, 117, 109, 101, 114, 97, 98, 108, 101>>,
    <<116, 111, 83, 116, 114, 105, 110, 103>>,
    <<118, 97, 108, 117, 101, 79, 102>>,
    <<95, 95, 112, 114, 111, 116, 111, 95, 95>>,
    <<116, 111, 76, 111, 99, 97, 108, 101, 83, 116, 114, 105, 110, 103>> }

\* statusOrder[status] ?? 4 as a number: 0 to 3 for "stable", "testing",
\* "unstable", "archaic", 4 for "" and for a status that is no member of
\* statusOrder, NaN for the name of an inherited member, whose value is a
\* function or an object
StatusRank(status) ==
  IF status = <<115, 116, 97, 98, 108, 101>> THEN 0
  ELSE IF status = <<116, 101, 115, 116, 105, 110, 103>> THEN 1
  ELSE IF status = <<117, 110, 115, 116, 97, 98, 108, 101>> THEN 2
  ELSE IF status = <<97, 114, 99, 104, 97, 105, 99>> THEN 3
  ELSE IF status \in PrototypeMembers THEN NaN
  ELSE 4

\* the sign of a number
Sign(v) == IF v < 0 THEN -1 ELSE IF v > 0 THEN 1 ELSE 0

\* a.localeCompare(b) of line 288.  No locale is passed, so the names are
\* compared by the collation of the default locale of the process, which
\* the program does not choose.  A collation is given by the sort key it
\* assigns to each name: the name of the smaller key comes first, and two
\* names of the same key compare 0, as canonically equivalent names do.
LocaleCompare(collation, a, b) == Sign(collation[a] - collation[b])

\* lines 283-289; sa !== sb holds for two inherited members of different
\* names and for an inherited member and a number, and sa - sb is then NaN
statusSort(collation, a, b) ==
  LET sa == StatusRank(a.status)
      sb == StatusRank(b.status)
      differ == sa # sb \/ (sa = NaN /\ a.status # b.status)
  IN  IF differ
        THEN (IF sa = NaN \/ sb = NaN THEN NaN ELSE sa - sb)
        ELSE LocaleCompare(collation, a.localName, b.localName)

\* the comparison sort makes with statusSort: NaN counts as 0
SortCompare(collation, a, b) ==
  LET v == statusSort(collation, a, b) IN IF v = NaN THEN 0 ELSE v

\* statusSort is a consistent comparator for the items: the comparison of
\* b with a is the opposite of that of a with b, and "before" and "equal"
\* are transitive
ConsistentOn(collation, items) ==
  LET n == Len(items)
      c(i, j) == Sign(SortCompare(collation, items[i], items[j]))
  IN  /\ \A i, j \in 1..n : c(i, j) = 0 - c(j, i)
      /\ \A i, j, k \in 1..n :
           /\ (c(i, j) = 0 /\ c(j, k) = 0) => c(i, k) = 0
           /\ (c(i, j) < 0 /\ c(j, k) < 0) => c(i, k) < 0
           /\ (c(i, j) = 0 /\ c(j, k) < 0) => c(i, k) < 0
           /\ (c(i, j) < 0 /\ c(j, k) = 0) => c(i, k) < 0

\* x put into the sorted sequence sorted, after the entries it does not
\* precede (the sort is stable)
RECURSIVE SortInsert(_, _, _)
SortInsert(collation, sorted, x) ==
  IF sorted = << >> THEN <<x>>
  ELSE IF SortCompare(collation, x, sorted[1]) < 0 THEN <<x>> \o sorted
  ELSE <<sorted[1]>> \o SortInsert(collation, Tail(sorted), x)

\* classes.sort(statusSort) when statusSort is consistent for the classes
RECURSIVE SortClasses(_, _, _)
SortClasses(collation, sorted, classes) ==
  IF classes = << >> THEN sorted
  ELSE SortClasses(collation, SortInsert(collation, sorted, classes[1]),
                   Tail(classes))

\* the orders of the items
RECURSIVE OrdersOf(_)
OrdersOf(items) ==
  IF items = << >> THEN { << >> }
  ELSE UNION { { <<items[k]>> \o rest :
                   rest \in OrdersOf(SubSeq(items, 1, k - 1)
                                           \o SubSeq(items, k + 1,
                                                     Len(items))) } :
               k \in 1..Len(items) }

\* What items.sort(statusSort) can leave: the stable sort when statusSort is
\* consistent for the items, and otherwise, where the order is left to the
\* implementation, any order of the items.
SortOutcomes(collation, items) ==
  IF ConsistentOn(collation, items)
    THEN { SortClasses(collation, << >>, items) }
    ELSE OrdersOf(items)

\* mutant: the URI is pushed whether the list has it or not
PushIfAbsent_Always(list, u) == Append(list, u)

\* if (!list.includes(u)) list.push(u)
PushIfAbsent(list, u) == IF u \in Range(list) THEN list ELSE Append(list, u)

\* The list the loops of lines 644-679 leave in the map of one relationship
\* under classUri: keyField and valueField are "o" and "s" for rdfs:domain,
\* rdfs:range and rdfs:subClassOf, "s" and "o" for owl:disjointWith.
RECURSIVE Collect(_, _, _, _, _, _)
Collect(qs, predicate, keyField, valueField, classUri, list) ==
  IF qs = << >> THEN list
  ELSE LET q == qs[1]
       IN  Collect(Tail(qs), predicate, keyField, valueField, classUri,
                   IF q.p = predicate /\ q[keyField] = classUri
                     THEN PushIfAbsent(list, q[valueField])
                     ELSE list)

\* domainUris, rangeUris, subUris and disjUris of the class, under the names
\* of the fields they reorder
CandidatesOf(qs, classUri) ==
  [inDomainOf  |-> Collect(qs, "rdfs:domain", "o", "s", classUri, << >>),
   inRangeOf   |-> Collect(qs, "rdfs:range", "o", "s", classUri, << >>),
   hasSubClass |-> Collect(qs, "rdfs:subClassOf", "o", "s", classUri, << >>),
   disjointWithFormatted |->
     Collect(qs, "owl:disjointWith", "s", "o", classUri, << >>)]

\* mutant: a list of one candidate is rebuilt as well
ShouldReorder_One(uris) == Len(uris) > 0

\* uris.length > 1
ShouldReorder(uris) == Len(uris) > 1

\* ordered.map(u => u.slice(ns.length))
RECURSIVE LocalNames(_, _)
LocalNames(ordered, ns) ==
  IF ordered = << >> THEN << >>
  ELSE <<Slice(ordered[1], Len(ns))>> \o LocalNames(Tail(ordered), ns)

\* items.find(s => s.localName === ln) || default
RECURSIVE FindOr(_, _, _)
FindOr(items, ln, default) ==
  IF items = << >> THEN default
  ELSE IF items[1].localName = ln THEN items[1]
  ELSE FindOr(Tail(items), ln, default)

\* the map callback of lines 700-703
RECURSIVE SubClassRefs(_, _, _)
SubClassRefs(ordered, ns, hasSubClass) ==
  IF ordered = << >> THEN << >>
  ELSE LET ln == Slice(ordered[1], Len(ns))
       IN  <<FindOr(hasSubClass, ln, [localName |-> ln, label |-> ln])>>
             \o SubClassRefs(Tail(ordered), ns, hasSubClass)

\* the map callback of lines 710-713
RECURSIVE DisjointRefs(_, _)
DisjointRefs(ordered, disjointWithFormatted) ==
  IF ordered = << >> THEN << >>
  ELSE LET u  == ordered[1]
           ln == localNameFromUri(u)
       IN  <<FindOr(disjointWithFormatted, ln,
                    [localName |-> ln, uri |-> u, label |-> ln,
                     isLocal |-> FALSE])>>
             \o DisjointRefs(Tail(ordered), disjointWithFormatted)

\* the body of the loop of lines 681-715 for one class
OrderClass(cls, qs, ns, b) ==
  LET c  == CandidatesOf(qs, cls.uri)
      c1 == IF ShouldReorder(c.inDomainOf)
              THEN [cls EXCEPT !.inDomainOf =
                      LocalNames(py2DictOrder(c.inDomainOf, b), ns)]
              ELSE cls
      c2 == IF ShouldReorder(c.inRangeOf)
              THEN [c1 EXCEPT !.inRangeOf =
                      LocalNames(py2DictOrder(c.inRangeOf, b), ns)]
              ELSE c1
      c3 == IF ShouldReorder(c.hasSubClass)
              THEN [c2 EXCEPT !.hasSubClass =
                      SubClassRefs(py2DictOrder(c.hasSubClass, b), ns,
                                   c2.hasSubClass)]
              ELSE c2
  IN  IF ShouldReorder(c.disjointWithFormatted)
        THEN [c3 EXCEPT !.disjointWithFormatted =
                DisjointRefs(py2DictOrder(c.disjointWithFormatted, b),
                             c3.disjointWithFormatted)]
        ELSE c3

\* vocab.classes after applyPy2Ordering(vocab, qs, ns, b)
RECURSIVE applyPy2Ordering(_, _, _, _)
applyPy2Ordering(classes, qs, ns, b) ==
  IF classes = << >> THEN << >>
  ELSE <<OrderClass(classes[1], qs, ns, b)>>
         \o applyPy2Ordering(Tail(classes), qs, ns, b)

RECURSIVE CandidateLists(_, _)
CandidateLists(classes, qs) ==
  IF classes = << >> THEN << >>
  ELSE <<CandidatesOf(qs, classes[1].uri)>>
         \o CandidateLists(Tail(classes), qs)

\* one placeholder line: a line feed and 12 spaces
PlaceholderLine == <<10, 32, 32, 32, 32, 32, 32, 32, 32, 32, 32, 32, 32>>

\* mutant: subClassOf is not looked at
EmptyPlaceholder_IgnoresSubClassOf(cls) ==
  IF Len(cls.inDomainOf) = 0 /\ Len(cls.inRangeOf) = 0
    THEN PlaceholderLine \o PlaceholderLine
    ELSE << >>

\* cls.emptyPlaceholder as set by lines 355-362
EmptyPlaceholder(cls) ==
  LET hasD  == Len(cls.inDomainOf) > 0
      hasR  == Len(cls.inRangeOf) > 0
      hasSC == Len(cls.subClassOf) > 0
  IN  IF ~hasD /\ ~hasR
        THEN IF hasSC THEN PlaceholderLine
                      ELSE PlaceholderLine \o PlaceholderLine
        ELSE << >>

\* the loop of lines 354-363
RECURSIVE WithPlaceholders(_)
WithPlaceholders(classes) ==
  IF classes = << >> THEN << >>
  ELSE <<classes[1] @@ [emptyPlaceholder |-> EmptyPlaceholder(classes[1])]>>
         \o WithPlaceholders(Tail(classes))

\* the local names "A", "B", "C", "T", "p", "q"
NameA == <<65>>
NameB == <<66>>
NameC == <<67>>
NameT == <<84>>
NameP == <<112>>
NameQ == <<113>>

\* the ancientBugs options: two configs that order the lists of "A" in
\* opposite ways, the second with an override for "B" as well
AncientConfigs ==
  { [given    |-> TRUE,
     ordering |-> (NameA :> [inDomainOf   |-> <<NameQ, NameP>>,
                             hasSubClass  |-> <<NameC, NameB>>,
                             disjointWith |-> <<NameT, NameB>>])],
    [given    |-> TRUE,
     ordering |-> (NameA :> [inDomainOf   |-> <<NameP, NameQ>>,
                             inRangeOf    |-> <<NameP, NameQ>>,
                             hasSubClass  |-> <<NameB, NameC>>,
                             disjointWith |-> <<NameB, NameT>>])
                  @@ (NameB :> [inRangeOf |-> <<NameP>>])] }

\* const quads = await parseRdf(rdfPath)
InitGenerate ==
  /\ Construct(64)
  /\ call = NoCall
  /\ ret = << >>
  /\ NoCalls
  /\ quads \in Documents
  /\ vocab = << >>
  /\ stage = "parsed"
  /\ candidates = << >>
  /\ props = << >>
  /\ ancient = NullConfig

\* The sort keys of the local names of the classes and properties of the
\* documents under the collations a process can have.  Most locales, en-US
\* among them, order the names as the alphabet does: A, B, C, p, q.
RootKeys ==
  (NameA :> 1) @@ (NameB :> 2) @@ (NameC :> 3) @@ (NameP :> 4)
    @@ (NameQ :> 5)

\* the collation of az-AZ, whose alphabet has q after k: A, B, C, q, p
AzKeys ==
  (NameA :> 1) @@ (NameB :> 2) @@ (NameC :> 3) @@ (NameQ :> 4)
    @@ (NameP :> 5)

\* the collations of the default locale the process is run with
Collations == { RootKeys, AzKeys }

\* lines 273-291: detectNamespace and extractVocabulary, and then, when
\* docDir is not set, the sorts of the classes and of the properties by
\* the collation of the process; when it is set, generateSpec waits at
\* line 279 with the vocabulary as extracted
Extract(docDir, collation) ==
  /\ stage = "parsed"
  /\ LET ns      == detectNamespace(quads)
         classes == extractVocabulary(quads, ns)
         properties == extractProperties(quads, ns)
     IN  IF docDir
           THEN /\ vocab' = classes
                /\ props' = properties
                /\ stage' = "awaiting"
           ELSE /\ vocab' \in SortOutcomes(collation, classes)
                /\ props' \in SortOutcomes(collation, properties)
                /\ stage' = "extracted"
  /\ UNCHANGED <<dictVars, call, ret, callVars, quads, candidates, ancient>>

\* lines 279-291 from the return of loadDocFragments on: the sorts of the
\* classes and of the properties by the collation of the process
LoadDocFragments(collation) ==
  /\ stage = "awaiting"
  /\ vocab' \in SortOutcomes(collation, vocab)
  /\ props' \in SortOutcomes(collation, props)
  /\ stage' = "extracted"
  /\ UNCHANGED <<dictVars, call, ret, callVars, quads, candidates, ancient>>

\* mutant: the overrides are applied after the ordering of lines 299-301
OverrideStages_AfterOrdering == {"ordered"}

\* the stages of generateSpec at which lines 294-296 run
OverrideStages == {"extracted"}

\* lines 294-296 with ancientBugs set to config
ApplyAncientBugs(config) ==
  /\ stage \in OverrideStages
  /\ vocab' = applyAncientBugs(vocab, config)
  /\ ancient' = config
  /\ stage' = "overridden"
  /\ UNCHANGED <<dictVars, call, ret, callVars, quads, candidates, props>>

\* lines 299-301 with fakePyDicts set: applyPy2Ordering with the width b
ApplyOrdering(b) ==
  /\ stage \in {"extracted", "overridden"}
  /\ vocab' = applyPy2Ordering(vocab, quads, detectNamespace(quads), b)
  /\ candidates' = CandidateLists(vocab, quads)
  /\ stage' = "ordered"
  /\ UNCHANGED <<dictVars, call, ret, callVars, quads, props, ancient>>

\* lines 299-301 with fakePyDicts not set
SkipOrdering ==
  /\ stage \in {"extracted", "overridden"}
  /\ stage' = "unordered"
  /\ UNCHANGED <<dictVars, call, ret, callVars, quads, vocab, candidates,
                 props, ancient>>

\* lines 354-363
Placeholders ==
  /\ stage \in {"ordered", "unordered"}
  /\ vocab' = WithPlaceholders(vocab)
  /\ stage' = "done"
  /\ UNCHANGED <<dictVars, call, ret, callVars, quads, candidates, props,
                 ancient>>

NextGenerate ==
  \/ \E docDir \in BOOLEAN, collation \in Collations :
       Extract(docDir, collation)
  \/ \E collation \in Collations : LoadDocFragments(collation)
  \/ \E config \in AncientConfigs : ApplyAncientBugs(config)
  \/ \E b \in LegalWidths : ApplyOrdering(b)
  \/ SkipOrdering
  \/ Placeholders

SpecGenerate == InitGenerate /\ [][NextGenerate]_vars

(***************************************************************************)
(* reorderByList, applied on its own.                                      *)
(***************************************************************************)
\* most items of a list and most names of a reference order
MaxItems == 3

\* the names of the items: "A", "B", "C"
ItemNames == { <<65>>, <<66>>, <<67>> }
\* the names of a reference order: those and "D"
OrderNames == ItemNames \cup { <<68>> }

\* the objects named names, the i-th and later ones; the label of an object
\* is the digit of its position
RECURSIVE ItemObjects(_, _)
ItemObjects(names, i) ==
  IF i > Len(names) THEN << >>
  ELSE <<[localName |-> names[i], label |-> <<48 + i>>]>>
         \o ItemObjects(names, i + 1)

ReorderInputs ==
  { [fn |-> "reorder", items |-> names, order |-> order, key |-> "none"] :
      names \in SeqsUpTo(ItemNames, MaxItems),
      order \in SeqsUpTo(OrderNames, MaxItems) }
  \cup
  { [fn |-> "reorder", items |-> ItemObjects(names, 1), order |-> order,
     key |-> "localName"] :
      names \in SeqsUpTo(ItemNames, MaxItems),
      order \in SeqsUpTo(OrderNames, MaxItems) }

InitReorder ==
  /\ Construct(64)
  /\ call \in ReorderInputs
  /\ ret = << >>
  /\ NoCalls
  /\ NoDocument

\* reorderByList(items, order) or reorderByList(items, order, 'localName')
ApplyReorder ==
  /\ call.fn = "reorder"
  /\ ret = << >>
  /\ ret' = <<reorderByList(call.items, call.order, call.key)>>
  /\ UNCHANGED <<dictVars, call, callVars, genVars>>

NextReorder == ApplyReorder

SpecReorder == InitReorder /\ [][NextReorder]_vars

(***************************************************************************)
(* Properties.                                                             *)
(***************************************************************************)
\* the keys held by the table
TableKeys(tbl) == { tbl[i].key : i \in { j \in 1..Len(tbl) : tbl[j].occupied } }

\* the occupied slots of the table, in ascending index
Occupied(tbl) == SelectSeq(tbl, LAMBDA e : e.occupied)

RECURSIVE IsPowerOfTwo(_)
IsPowerOfTwo(n) ==
  IF n <= 1 THEN n = 1 ELSE (n % 2 = 0) /\ IsPowerOfTwo(n \div 2)

RECURSIVE Pow2(_)
Pow2(k) == IF k = 0 THEN 1 ELSE 2 * Pow2(k - 1)

PowersOfTwo == { Pow2(k) : k \in 0..24 }

\* ss without the entries that repeat an earlier one
RECURSIVE Dedup(_)
Dedup(ss) ==
  IF ss = << >> THEN << >>
  ELSE LET front == SubSeq(ss, 1, Len(ss) - 1)
           last  == ss[Len(ss)]
       IN  IF last \in Range(front) THEN Dedup(front)
                                    ELSE Append(Dedup(front), last)

\* The probe sequence of the unsigned hash u in a table of mask + 1 slots:
\* perturb(0) = u, perturb(n + 1) = perturb(n) >> 5,
\* i(0) = u & mask, i(n + 1) = (5 * i(n) + perturb(n) + 1) & mask.
RECURSIVE RefPerturb(_, _)
RefPerturb(u, n) == IF n = 0 THEN u ELSE WordShr5(RefPerturb(u, n - 1))

RECURSIVE RefIndex(_, _, _)
RefIndex(u, m, n) ==
  IF n = 0 THEN WordLow(u) % (m + 1)
  ELSE ((5 * RefIndex(u, m, n - 1)) + (WordLow(RefPerturb(u, n - 1)) % (m + 1))
          + 1) % (m + 1)

\* the first position, from n on, of the probe sequence whose slot is empty
RECURSIVE RefFirstEmpty(_, _, _, _)
RefFirstEmpty(tbl, u, m, n) ==
  IF tbl[RefIndex(u, m, n) + 1].occupied THEN RefFirstEmpty(tbl, u, m, n + 1)
                                         ELSE n

\* the entries placed one by one, in the order of the sequence, each in the
\* first empty slot of the probe sequence of its stored hash
RECURSIVE RefPlaceAll(_, _, _, _)
RefPlaceAll(entries, tbl, m, u64) ==
  IF entries = << >> THEN tbl
  ELSE LET e == Head(entries)
           u == UnsignedHash(u64, e.hash)
           i == RefIndex(u, m, RefFirstEmpty(tbl, u, m, 0))
       IN  RefPlaceAll(Tail(entries), [tbl EXCEPT ![i + 1] = e], m, u64)

\* C1: the sequence py2DictOrder returns is a permutation of the
\* deduplicated input: it holds every distinct input string exactly once
\* and nothing else.
C1_Permutation ==
  pc = "done" =>
    /\ Range(result) = Range(strings)
    /\ Len(result) = Cardinality(Range(strings))

\* an input with a repeat, two resizes and a changed order has been read out
C1_Witness ==
  /\ pc = "done"
  /\ resizes = 2
  /\ Dups(strings) = 1
  /\ result # Dedup(strings)

\* C2: a width other than 32 and 64 is rejected: nothing is inserted and no
\* ordering is returned.
C2_InvalidWidthRejected ==
  bits \notin LegalWidths => (fill = 0 /\ pc # "done")

\* C3: after every completed set the occupied count is strictly below two
\* thirds of the capacity.
C3_BelowTwoThirds == fill * 3 < size * 2

\* a resized table one insert away from its next resize
C3_Witness == resizes >= 1 /\ (fill + 1) * 3 >= size * 2

\* C4: the capacity starts at 8, is always a power of two and at least 8,
\* mask is capacity - 1, the slot array has capacity cells, the capacity
\* never decreases and every resize strictly increases it.
C4_Capacity ==
  /\ size = 8
  /\ [](/\ IsPowerOfTwo(size)
        /\ size >= 8
        /\ mask = size - 1
        /\ Len(table) = size)
  /\ [][/\ size' >= size
        /\ (resizes' # resizes => size' > size)]_vars

\* a table that has been resized twice
C4_Witness == resizes = 2 /\ size = 128 /\ mask = 127

\* C5: with fewer than 6 distinct strings inserted there has been no resize
\* and the capacity is 8; with 6 there has been exactly one resize and the
\* capacity is 32.
C5_SixInserts ==
  LET n == Cardinality(Range(strings))
  IN  /\ n < 6 => (resizes = 0 /\ size = 8)
      /\ n = 6 => (resizes = 1 /\ size = 32)

\* six distinct strings have been inserted
C5_Witness ==
  Cardinality(Range(strings)) = 6 /\ resizes = 1 /\ size = 32 /\ used = 6

\* C6: a set of a key the table already holds changes neither a slot nor
\* fill, used, capacity or mask, and triggers no resize.
C6_Idempotent ==
  [][\A key \in TableKeys(table) :
       strings' = Append(strings, key) =>
         UNCHANGED <<table, fill, used, size, mask, resizes>>]_vars

\* the latest set re-inserted a string into a table that had been resized,
\* and the string does not sit at the first index of its probe sequence
C6_Witness ==
  LET n == Len(strings)
  IN  /\ n >= 2
      /\ resizes >= 1
      /\ strings[n] \in Range(SubSeq(strings, 1, n - 1))
      /\ LET u == UnsignedHash(use64, HashOf(bits, strings[n]))
         IN  table[RefIndex(u, mask, 0) + 1].key # strings[n]

\* C7: the slot array after a resize is the one obtained by placing the
\* entries of the old array, in ascending index of the old array, one by one
\* into an empty array of the new capacity.
C7_ResizeReplaysPhysicalOrder ==
  [][resizes' # resizes =>
       table' = RefPlaceAll(Occupied(oldTable'), EmptyTable(size'),
                            size' - 1, use64)]_vars

\* the entries of strings, in insertion order
InsertionOrder(ss, b) ==
  [i \in 1..Len(Dedup(ss)) |->
     Entry(Dedup(ss)[i], HashOf(b, Dedup(ss)[i]), TRUE)]

\* the table has just been resized, and placing the entries in insertion
\* order would have given another slot array
C7_Witness ==
  /\ resizes >= 1
  /\ used = Len(Occupied(oldTable))
  /\ table # RefPlaceAll(InsertionOrder(strings, bits), EmptyTable(size),
                         size - 1, use64)

\* C9: a set of a key the table does not hold stores (key, hash) in the
\* first empty slot of the probe sequence of the hash, adds one to fill and
\* to used, and before the resize it may trigger changes no other slot.
C9_InsertNewKey ==
  [][\A key \in AllKeys \ TableKeys(table) :
       strings' = Append(strings, key) =>
         LET hash == IF bits = 32 THEN py2Hash32(key) ELSE py2Hash64(key)
             u    == UnsignedHash(use64, hash)
             idx  == RefIndex(u, mask, RefFirstEmpty(table, u, mask, 0))
             mid  == IF resizes' # resizes THEN oldTable' ELSE table'
         IN  /\ mid = [table EXCEPT ![idx + 1] = Entry(key, hash, TRUE)]
             /\ fill' = fill + 1
             /\ used' = used + 1]_vars

\* the latest set stored a new string, in a resized table, at the third or
\* a later position of its probe sequence
C9_Witness ==
  LET n == Len(strings)
  IN  /\ n >= 1
      /\ resizes = 1
      /\ used > 6
      /\ strings[n] \notin Range(SubSeq(strings, 1, n - 1))
      /\ LET u == UnsignedHash(use64, HashOf(bits, strings[n]))
         IN  \E k \in 2..8 :
               /\ table[RefIndex(u, mask, k) + 1].occupied
               /\ table[RefIndex(u, mask, k) + 1].key = strings[n]
               /\ \A j \in 0..(k - 1) :
                    /\ table[RefIndex(u, mask, j) + 1].occupied
                    /\ table[RefIndex(u, mask, j) + 1].key # strings[n]

\* the capacity the resize rule asks for
RefCapacity(u) ==
  LET minused == IF u <= 50000 THEN 4 * u ELSE 2 * u
      fits(c) == c > minused /\ c >= 8
  IN  CHOOSE c \in PowersOfTwo :
        fits(c) /\ \A c2 \in PowersOfTwo : fits(c2) => c <= c2

\* C8: the capacity a resize chooses is the smallest power of two that is
\* strictly greater than minused and at least 8, minused being 4 * used up
\* to 50000 used slots and 2 * used above.
C8_NewCapacity ==
  (call.fn = "newSize" /\ ret # << >>) => ret[1] = RefCapacity(call.used)

\* the capacity for a table just above the large-table threshold
C8_Witness ==
  /\ call.fn = "newSize"
  /\ call.used = 50001
  /\ ret = <<131072>>

\* C10: the hash is never -1: it is -2 when the natural result is -1 and
\* the natural result otherwise.
C10_NoSentinel ==
  (call.fn = "hash" /\ ret # << >>) =>
    LET w       == IF call.bits = 32 THEN 4 ELSE 8
        natural == IF Len(call.str) = 0 THEN SignedOfInt(0, w)
                   ELSE IF call.bits = 32 THEN py2Hash32Natural(call.str)
                   ELSE py2Hash64Natural(call.str)
    IN  /\ ret[1] # SignedOfInt(-1, w)
        /\ ret[1] = IF natural = SignedOfInt(-1, w) THEN SignedOfInt(-2, w)
                                                    ELSE natural

\* a string whose natural 64-bit hash is -1 has been hashed
C10_Witness ==
  /\ call.fn = "hash"
  /\ call.bits = 64
  /\ call.str = KeyM64
  /\ py2Hash64Natural(call.str) = SignedOfInt(-1, 8)
  /\ ret = <<SignedOfInt(-2, 8)>>

\* The reference hash of a non-empty string on n-digit words: every step is
\* on unsigned words modulo 256^n, and the final word is read as a signed
\* value in two's complement.
RECURSIVE RefHashLoop(_, _, _)
RefHashLoop(str, i, x) ==
  IF i > Len(str) THEN x
  ELSE RefHashLoop(str, i + 1,
                   WordXor(WordMulNat(x, 1000003, 0),
                           NatToWord(str[i], Len(x))))

RefHash(str, n) ==
  ToSigned(WordXor(RefHashLoop(str, 1, NatToWord(str[1] * 128, n)),
                   NatToWord(Len(str), n)))

\* s is a signed value of n digits in [-2^(8n-1), 2^(8n-1))
InSignedRange(s, n) ==
  /\ Len(s.mag) = n
  /\ IF s.neg
       THEN /\ s.mag # NatToWord(0, n)
            /\ \/ s.mag[n] < 128
               \/ s.mag = [i \in 1..n |-> IF i = n THEN 128 ELSE 0]
       ELSE s.mag[n] < 128

\* C11 as stated: the hash of a non-empty string is the reference
\* computation x = c[0] << 7; x = (x * 1000003) xor c[i] for every i;
\* x = x xor n, wrapped to the width at every step.
C11_HashIsReference ==
  (call.fn = "hash" /\ ret # << >> /\ Len(call.str) > 0) =>
    ret[1] = RefHash(call.str, IF call.bits = 32 THEN 4 ELSE 8)

\* C11: the hash of a non-empty string is the reference computation
\* x = c[0] << 7; x = (x * 1000003) xor c[i] for every i; x = x xor n,
\* wrapped to the width at every step, with -2 in place of a reference
\* result of -1; it lies in [-2^(w-1), 2^(w-1)).
C11_HashIsRemappedReference ==
  (call.fn = "hash" /\ ret # << >> /\ Len(call.str) > 0) =>
    LET n   == IF call.bits = 32 THEN 4 ELSE 8
        ref == RefHash(call.str, n)
    IN  /\ ret[1] = IF ref = SignedOfInt(-1, n) THEN SignedOfInt(-2, n)
                                                ELSE ref
        /\ InSignedRange(ret[1], n)

\* a string whose 32-bit products wrap and whose reference result is -1 has
\* been hashed
C11_Witness ==
  /\ call.fn = "hash"
  /\ call.bits = 32
  /\ call.str = KeyM32
  /\ RefHash(call.str, 4) = SignedOfInt(-1, 4)
  /\ ret = <<SignedOfInt(-2, 4)>>

\* C12: py2DictOrder returns for a sequence what it returns for the sequence
\* without the entries that repeat an earlier one (the run firsts), and a
\* repeated entry neither moves a key nor causes a resize.
C12_DedupInvariant ==
  /\ pc = "done" => result = Keys(firsts.d.table)
  /\ table = firsts.d.table
  /\ resizes = firsts.resizes

\* an input with a repeat between two new strings, resized and read out in
\* an order that is not the input order
C12_Witness ==
  /\ pc = "done"
  /\ resizes >= 1
  /\ \E i \in 2..(Len(strings) - 1) :
       /\ strings[i] \in Range(SubSeq(strings, 1, i - 1))
       /\ strings[i + 1] \notin Range(SubSeq(strings, 1, i))
  /\ result # Dedup(strings)

\* C13: an input with fewer than 2 distinct strings is returned without its
\* repeats: the empty input gives the empty sequence, and an input that is
\* one string, once or repeated, gives that string alone.
C13_FewerThanTwo ==
  (pc = "done" /\ Cardinality(Range(strings)) < 2) =>
    result = IF strings = << >> THEN << >> ELSE <<strings[1]>>

\* the empty string, given twice, has been read out
C13_Witness ==
  /\ pc = "done"
  /\ strings = << << >>, << >> >>
  /\ result = << << >> >>

\* C14: two calls of py2DictOrder with the same strings and the same width
\* return the same sequence, whatever calls were made before and between
\* them.
C14_Deterministic ==
  \A m, n \in 1..Len(log) :
    (log[m].bits = log[n].bits /\ log[m].strings = log[n].strings) =>
      log[m].result = log[n].result

\* the same list has been reordered twice, with a call for another list
\* between the two
C14_Witness ==
  /\ Len(log) = 3
  /\ log[1].strings = log[3].strings
  /\ log[1].bits = log[3].bits
  /\ log[2].strings # log[1].strings
  /\ log[2].strings # << >>
  /\ log[1].result # log[1].strings
  /\ log[1].result = log[3].result

\* C16: a call of py2DictOrder starts from an empty table of capacity 8, and
\* a call whose inserts are interleaved with those of a call for another
\* list returns what py2DictOrder returns for its list on its own.
C16_OwnTable ==
  \A c \in CallIds :
    /\ (calls[c].state = "running" /\ calls[c].i = 1) => calls[c].d = NewDict
    /\ calls[c].state = "returned" =>
         calls[c].result = py2DictOrder(calls[c].strings, calls[c].bits)

\* two calls for different lists have returned, each with inserts made
\* while the other was under way, one of them after a resize
C16_Witness ==
  /\ calls[1].state = "returned"
  /\ calls[2].state = "returned"
  /\ calls[1].mixed
  /\ calls[2].mixed
  /\ calls[1].strings # calls[2].strings
  /\ calls[1].result # calls[1].strings
  /\ calls[1].d.size > PyDictMinSize

\* the index of the slot that holds key
SlotOf(tbl, key) ==
  CHOOSE j \in 1..Len(tbl) : tbl[j].occupied /\ tbl[j].key = key

\* C15: keys returns the keys of the occupied slots and nothing else, every
\* key at a smaller slot index than the key listed after it, and as many
\* keys as the used count.
C15_KeysAscending ==
  pc = "done" =>
    /\ Len(result) = used
    /\ Range(result) = TableKeys(table)
    /\ \A m \in 1..(Len(result) - 1) :
         SlotOf(table, result[m]) < SlotOf(table, result[m + 1])

\* a resized table with empty slots before, between and after its keys has
\* been read out, and the keys are not in insertion order
C15_Witness ==
  /\ pc = "done"
  /\ resizes >= 1
  /\ used >= 7
  /\ ~table[1].occupied
  /\ ~table[size].occupied
  /\ \E j \in 2..(size - 1) :
       ~table[j].occupied /\ table[j - 1].occupied /\ table[j + 1].occupied
  /\ result # Dedup(strings)

\* C17: the occupied count and the used count are equal and both are the
\* number of non-empty slots of the slot array; a resize leaves both at the
\* values they had when it began, the number of entries it re-inserted.
C17_CountsMatchSlots ==
  /\ [](/\ fill = used
        /\ used = Len(Occupied(table)))
  /\ [][resizes' # resizes =>
          /\ fill' = fill + 1
          /\ used' = used + 1
          /\ used' = Len(Occupied(oldTable'))]_vars

\* the table has just been resized for the second time
C17_Witness ==
  /\ resizes = 2
  /\ used = Len(Occupied(oldTable))
  /\ used = Len(Occupied(table))
  /\ fill = 22

\* the fields of a class that applyPy2Ordering may assign, and the others
OrderedFields == {"inDomainOf", "inRangeOf", "hasSubClass",
                  "disjointWithFormatted"}

OtherFields == {"uri", "localName", "label", "status", "subClassOf",
                "disjointWith"}

\* the terms the document relates to the class by the relationship of field
RelatedSet(qs, field, classUri) ==
  LET stated(p) == { q \in Range(qs) : q.p = p }
  IN  IF field = "inDomainOf"
        THEN { q.s : q \in { r \in stated("rdfs:domain") : r.o = classUri } }
      ELSE IF field = "inRangeOf"
        THEN { q.s : q \in { r \in stated("rdfs:range") : r.o = classUri } }
      ELSE IF field = "hasSubClass"
        THEN { q.s : q \in { r \in stated("rdfs:subClassOf") :
                               r.o = classUri } }
      ELSE { q.o : q \in { r \in stated("owl:disjointWith") :
                             r.s = classUri } }

\* the classes as extractVocabulary returns them, in the order vocab has
\* them in
ExtractedClasses ==
  LET extracted == extractVocabulary(quads, detectNamespace(quads))
  IN  [i \in 1..Len(vocab) |->
         CHOOSE c \in Range(extracted) : c.uri = vocab[i].uri]

\* C18: applyPy2Ordering leaves a list of a class as it was when the
\* document has 0 or 1 distinct candidate for it, and it changes no field
\* of a class other than the four lists.
C18_FewCandidatesUntouched ==
  [][stage' = "ordered" =>
       /\ Len(vocab') = Len(vocab)
       /\ \A i \in 1..Len(vocab) :
            /\ DOMAIN vocab'[i] = DOMAIN vocab[i]
            /\ \A f \in OtherFields : vocab'[i][f] = vocab[i][f]
            /\ \A f \in OrderedFields :
                 Cardinality(RelatedSet(quads, f, vocab[i].uri)) < 2 =>
                   vocab'[i][f] = vocab[i][f]]_vars

\* applyPy2Ordering has left the list of a class with one candidate as it
\* was and has changed another list of the same class
C18_Witness ==
  /\ stage = "ordered"
  /\ \E i \in 1..Len(vocab) :
       /\ Cardinality(RelatedSet(quads, "inDomainOf", vocab[i].uri)) = 1
       /\ vocab[i].inDomainOf = ExtractedClasses[i].inDomainOf
       /\ vocab[i].inDomainOf # << >>
       /\ vocab[i].disjointWithFormatted #
            ExtractedClasses[i].disjointWithFormatted

\* the positions in the document of the quads that relate u to the class by
\* the relationship of field
PositionsOf(qs, field, classUri, u) ==
  { k \in 1..Len(qs) :
      /\ qs[k].p = (IF field = "inDomainOf" THEN "rdfs:domain"
                    ELSE IF field = "inRangeOf" THEN "rdfs:range"
                    ELSE IF field = "hasSubClass" THEN "rdfs:subClassOf"
                    ELSE "owl:disjointWith")
      /\ IF field = "disjointWithFormatted"
           THEN qs[k].s = classUri /\ qs[k].o = u
           ELSE qs[k].o = classUri /\ qs[k].s = u }

\* the position of the first of them
FirstPosition(qs, field, classUri, u) ==
  LET ps == PositionsOf(qs, field, classUri, u)
  IN  CHOOSE k \in ps : \A j \in ps : k <= j

\* C19: the candidates of a class for a relationship are the terms the
\* document relates to it, each once, in the order of the first quads that
\* state them; a quad stated again adds nothing.
C19_FirstSeenOrder ==
  candidates # << >> =>
    \A i \in 1..Len(candidates), f \in OrderedFields :
      LET list == candidates[i][f]
          uri  == vocab[i].uri
      IN  /\ Cardinality(Range(list)) = Len(list)
          /\ Range(list) = RelatedSet(quads, f, uri)
          /\ \A m, n \in 1..Len(list) :
               m < n => FirstPosition(quads, f, uri, list[m])
                          < FirstPosition(quads, f, uri, list[n])

\* the document states a relationship, another one, and the first again;
\* the candidates are the two terms in that order
C19_Witness ==
  /\ stage = "ordered"
  /\ candidates # << >>
  /\ \E i \in 1..Len(candidates) :
       LET list == candidates[i].inDomainOf
           uri  == vocab[i].uri
       IN  /\ Len(list) = 2
           /\ Cardinality(PositionsOf(quads, "inDomainOf", uri, list[1])) = 2
           /\ \E k \in PositionsOf(quads, "inDomainOf", uri, list[1]) :
                k > FirstPosition(quads, "inDomainOf", uri, list[2])
           /\ vocab[i].inDomainOf # LocalNames(list, Ns)

\* n placeholder lines, each a line feed followed by 12 spaces
RECURSIVE RefPlaceholderLines(_)
RefPlaceholderLines(n) ==
  IF n = 0 THEN << >>
  ELSE <<10>> \o [k \in 1..12 |-> 32] \o RefPlaceholderLines(n - 1)

\* C20: the placeholder of a class is two placeholder lines when inDomainOf
\* and inRangeOf are empty and the class has no subClassOf, one line when
\* they are empty and it has one, and the empty string when inDomainOf or
\* inRangeOf is not empty.
C20_EmptyPlaceholder ==
  stage = "done" =>
    \A i \in 1..Len(vocab) :
      LET cls == vocab[i]
          n   == IF cls.inDomainOf = << >> /\ cls.inRangeOf = << >>
                   THEN (IF cls.subClassOf = << >> THEN 2 ELSE 1)
                   ELSE 0
      IN  cls.emptyPlaceholder = RefPlaceholderLines(n)

\* a vocabulary with a class of each kind: one with no placeholder, one with
\* one line and one with two
C20_Witness ==
  /\ stage = "done"
  /\ \E i, j, k \in 1..Len(vocab) :
       /\ vocab[i].inRangeOf # << >>
       /\ vocab[i].emptyPlaceholder = << >>
       /\ vocab[j].subClassOf # << >>
       /\ Len(vocab[j].emptyPlaceholder) = 13
       /\ vocab[k].subClassOf = << >>
       /\ Len(vocab[k].emptyPlaceholder) = 26

\* the names of the items of a list
RECURSIVE NamesOf(_, _)
NamesOf(items, key) ==
  IF items = << >> THEN << >>
  ELSE <<NameOf(items[1], key)>> \o NamesOf(Tail(items), key)

\* C21: reorderByList returns one item for every name of the reference
\* order that names an item, in the order of the reference, and then the
\* items the reference does not name, in their order in the list; every
\* entry is an item of the list; and when neither the list nor the
\* reference has a repeat the result is a permutation of the list.
C21_ReorderByList ==
  (call.fn = "reorder" /\ ret # << >>) =>
    LET items   == call.items
        order   == call.order
        key     == call.key
        names   == NamesOf(items, key)
        named   == SelectSeq(order, LAMBDA n : n \in Range(names))
        unnamed == SelectSeq(items,
                             LAMBDA x : NameOf(x, key) \notin Range(order))
        out     == ret[1]
    IN  /\ Len(out) = Len(named) + Len(unnamed)
        /\ NamesOf(SubSeq(out, 1, Len(named)), key) = named
        /\ SubSeq(out, Len(named) + 1, Len(out)) = unnamed
        /\ Range(out) \subseteq Range(items)
        /\ (Cardinality(Range(names)) = Len(names)
              /\ Cardinality(Range(order)) = Len(order)) =>
             /\ Range(out) = Range(items)
             /\ Len(out) = Len(items)

\* a list of three objects without a repeat has been reordered by a
\* reference that names two of them in another order, and a name the list
\* does not have; the item the reference does not name comes last
C21_Witness ==
  /\ call.fn = "reorder"
  /\ call.key = "localName"
  /\ NamesOf(call.items, "localName") = << <<65>>, <<66>>, <<67>> >>
  /\ call.order = << <<67>>, <<68>>, <<65>> >>
  /\ ret # << >>
  /\ NamesOf(ret[1], "localName") = << <<67>>, <<65>>, <<66>> >>

\* the objects of the quads of the document with subject s and predicate p
ObjectsOf(qs, s, p) ==
  { q.o : q \in { r \in Range(qs) : r.p = p /\ r.s = s } }

\* C22: after extractVocabulary, before and after the sorts, the local name
\* of an extracted property is in inDomainOf of an extracted class exactly
\* when the URI of the class is
\* in the domain of the property, which holds the domains the document
\* states for it; inDomainOf holds nothing else and no name twice; and
\* likewise for inRangeOf and range.
C22_DomainRangeInverse ==
  stage \in {"awaiting", "extracted"} =>
    \A i \in 1..Len(vocab) :
      LET cls == vocab[i]
      IN  /\ \A j \in 1..Len(props) :
               /\ Range(props[j].domain)
                    = ObjectsOf(quads, props[j].uri, "rdfs:domain")
               /\ Range(props[j].range)
                    = ObjectsOf(quads, props[j].uri, "rdfs:range")
               /\ props[j].localName \in Range(cls.inDomainOf)
                    <=> cls.uri \in Range(props[j].domain)
               /\ props[j].localName \in Range(cls.inRangeOf)
                    <=> cls.uri \in Range(props[j].range)
          /\ Range(cls.inDomainOf) \cup Range(cls.inRangeOf)
               \subseteq { props[j].localName : j \in 1..Len(props) }
          /\ Cardinality(Range(cls.inDomainOf)) = Len(cls.inDomainOf)
          /\ Cardinality(Range(cls.inRangeOf)) = Len(cls.inRangeOf)

\* the document states the same domain of a property twice and the range of
\* another property; the class has the one name in inDomainOf, once, the
\* other in inRangeOf, and another class has neither
C22_Witness ==
  /\ stage = "extracted"
  /\ Cardinality(PositionsOf(quads, "inDomainOf", ClassA, PropP)) = 2
  /\ \E i, k \in 1..Len(vocab) :
       /\ vocab[i].uri = ClassA
       /\ vocab[i].inDomainOf = << <<112>> >>
       /\ vocab[i].inRangeOf = << <<113>> >>
       /\ vocab[k].inDomainOf = << >>
       /\ vocab[k].inRangeOf = << >>

\* C23: the hash stored with the empty string is exactly 0, in the 32-bit
\* and in the 64-bit variant, and the empty string inserted into an empty
\* table is at slot index 0, the other slots staying empty.
C23_EmptyStringAtZero ==
  LET zero == SignedOfInt(0, IF bits = 32 THEN 4 ELSE 8)
  IN  /\ \A j \in 1..Len(table) :
           (table[j].occupied /\ table[j].key = << >>) => table[j].hash = zero
      /\ strings = << << >> >> =>
           /\ table[1] = Entry(<< >>, zero, TRUE)
           /\ \A j \in 2..Len(table) : ~table[j].occupied
      /\ ((call.fn = "hash" /\ ret # << >>) /\ call.str = << >>) =>
           ret[1] = SignedOfInt(0, IF call.bits = 32 THEN 4 ELSE 8)

\* the empty string has been inserted into the empty table of a legal width
C23_Witness ==
  /\ bits \in LegalWidths
  /\ strings = << << >> >>
  /\ used = 1
  /\ table[1].occupied
  /\ table[1].key = << >>
  /\ table[1].hash.mag \in {<<0, 0, 0, 0>>, <<0, 0, 0, 0, 0, 0, 0, 0>>}

\* the number of shifts after which a perturb of the width is 0: the width
\* divided by 5, rounded up
ShiftsToZero(u64) == IF u64 THEN 13 ELSE 7

\* i after n iterations of the recurrence i = (5 * i + 1) & m: the first
\* half of the iterations gives an index of the table, from which the second
\* half goes on
RECURSIVE Iterate(_, _, _)
Iterate(i, m, n) ==
  IF n = 0 THEN i
  ELSE IF n = 1 THEN ((5 * i) + 1) % (m + 1)
  ELSE LET j == Iterate(i, m, n \div 2)
       IN  IF j \in 0..m THEN Iterate(j, m, n - (n \div 2)) ELSE j

\* the slot indices the recurrence visits in n steps, the start included
RECURSIVE Visited(_, _, _)
Visited(i, m, n) ==
  IF n = 0 THEN {}
  ELSE IF n = 1 THEN {i}
  ELSE LET half == n \div 2
       IN  Visited(i, m, half) \cup Visited(Iterate(i, m, half), m, n - half)

\* the masks of the capacities 8 to 128 for which the recurrence visits
\* every slot index within as many steps as there are slots
FullCycleMasks ==
  UNION { IF Visited(0, m, m + 1) = 0..m THEN {m} ELSE {} :
            m \in { Pow2(k) - 1 : k \in 3..7 } }

\* The number of loop iterations _findSlot makes for key in the table, or
\* limit + 1 when it has not returned after limit iterations.
RECURSIVE ProbeLength(_, _, _, _, _, _, _)
ProbeLength(tbl, m, key, i, p, n, limit) ==
  IF n > limit THEN n
  ELSE IF (~tbl[i + 1].occupied) \/ tbl[i + 1].key = key THEN n
  ELSE ProbeLength(tbl, m, key, StepIndex(i, p, m), ShiftPerturb(p), n + 1,
                   limit)

\* C24: every call of _findSlot and of _insertClean returns: the table has
\* an empty slot at all times, the recurrence i = (5 * i + 1) & mask visits
\* every slot index, no call makes more loop iterations than the shifts
\* that bring perturb to 0 plus the number of slots, _findSlot would return
\* within that many iterations for any key, and a call under way returns.
C24_ProbesTerminate ==
  /\ [](/\ fill < size
        /\ \E j \in 1..Len(table) : ~table[j].occupied
        /\ mask \in FullCycleMasks
        /\ probe.op \in {"find", "clean"} =>
             probe.steps <= ShiftsToZero(use64) + size
        /\ probe.op = "idle" =>
             \A key \in AllKeys :
               LET hash == HashOf(bits, key)
               IN  ProbeLength(table, mask, key,
                               FirstIndex(use64, hash, mask),
                               InitialPerturb(use64, hash), 0,
                               ShiftsToZero(use64) + size)
                     <= ShiftsToZero(use64) + size)
  /\ (probe.op \in {"find", "clean"}) ~> (probe.op \in {"resize", "idle"})

\* during the second resize _insertClean has made 3 loop iterations for an
\* entry
C24_Witness ==
  /\ resizes = 2
  /\ probe.op = "clean"
  /\ probe.steps = 3
  /\ ~table[probe.i + 1].occupied

\* x + y as a word of one more digit than x
RECURSIVE WordSum(_, _, _)
WordSum(x, y, carry) ==
  IF x = << >> THEN <<carry>>
  ELSE LET t == x[1] + y[1] + carry
       IN  <<t % 256>> \o WordSum(Tail(x), Tail(y), t \div 256)

\* C25: in _findSlot and in _insertClean perturb starts at the hash for a
\* hash that is not negative and at hash + 2^w for a negative one, i starts
\* at that value & mask, perturb is never negative, and perturb is 0 once
\* it has been shifted w / 5 times, rounded up.
C25_UnsignedPerturb ==
  probe.op \in {"find", "clean"} =>
    LET n == IF use64 THEN 8 ELSE 4
        h == probe.hash
        p == probe.perturb
    IN  /\ ~p.neg
        /\ Len(p.mag) = n
        /\ probe.steps = 0 =>
             /\ IF h.neg
                  THEN WordSum(p.mag, WordFit(h.mag, n), 0)
                         = NatToWord(0, n) \o <<1>>
                  ELSE p.mag = WordFit(h.mag, n)
             /\ probe.i = WordLow(p.mag) % (mask + 1)
        /\ probe.steps >= ShiftsToZero(use64) => p.mag = NatToWord(0, n)

\* _findSlot has made 7 loop iterations for a key of negative 32-bit hash,
\* and perturb is 0
C25_Witness ==
  /\ bits = 32
  /\ probe.op = "find"
  /\ probe.hash.neg
  /\ probe.steps = 7
  /\ probe.perturb = [neg |-> FALSE, mag |-> <<0, 0, 0, 0>>]

\* the index at which the probe sequence of the unsigned hash u first meets
\* key, from position n on, or -1 when it meets an empty slot before
RECURSIVE RefFirstHit(_, _, _, _, _)
RefFirstHit(tbl, u, m, key, n) ==
  LET i == RefIndex(u, m, n)
  IN  IF ~tbl[i + 1].occupied THEN -1
      ELSE IF tbl[i + 1].key = key THEN i
      ELSE RefFirstHit(tbl, u, m, key, n + 1)

\* C26: at all times, the resizes included, every occupied slot holds the
\* hash of its key, the probe sequence of that hash meets the slot before
\* it meets an empty slot, and no two slots hold the same key.
C26_KeysFindable ==
  \A j \in 1..Len(table) :
    table[j].occupied =>
      /\ table[j].hash = HashFn(bits, table[j].key)
      /\ RefFirstHit(table, UnsignedHash(use64, table[j].hash), mask,
                     table[j].key, 0) = j - 1
      /\ \A k \in 1..Len(table) :
           (k # j /\ table[k].occupied) => table[k].key # table[j].key

\* the second resize is under way, with entries re-inserted and entries
\* left, and an entry of the new table is not at the first index of its
\* probe sequence
C26_Witness ==
  /\ resizes = 2
  /\ probe.op = "resize"
  /\ probe.pending # << >>
  /\ \E j \in 1..Len(table) :
       /\ table[j].occupied
       /\ RefIndex(UnsignedHash(use64, table[j].hash), mask, 0) # j - 1

\* the number of entries of the list equal to x
CountOf(list, x) == Cardinality({ k \in 1..Len(list) : list[k] = x })

\* the two lists hold the same entries, each as many times
SameEntries(before, after) ==
  /\ Len(before) = Len(after)
  /\ \A k \in 1..Len(before) :
       CountOf(after, before[k]) = CountOf(before, before[k])

\* C27: applyPy2Ordering only reorders: each of the four lists of each class
\* holds after the call the entries it held before the call, each as many
\* times, in some order.
C27_OnlyReorders ==
  [][stage' = "ordered" =>
       \A i \in 1..Len(vocab), f \in OrderedFields :
         SameEntries(vocab[i][f], vocab'[i][f])]_vars

\* the names of the terms in the order given, as applyPy2Ordering names the
\* entries of the list f
RECURSIVE OrderedNames(_, _, _)
OrderedNames(f, ordered, ns) ==
  IF ordered = << >> THEN << >>
  ELSE <<IF f = "disjointWithFormatted" THEN localNameFromUri(ordered[1])
                                        ELSE Slice(ordered[1], Len(ns))>>
         \o OrderedNames(f, Tail(ordered), ns)

\* the names of the entries of the list f of a class
ListNames(cls, f) ==
  NamesOf(cls[f], IF f \in {"inDomainOf", "inRangeOf"} THEN "none"
                                                     ELSE "localName")

\* C28: generateSpec applies the ancientBugs overrides only to the
\* vocabulary as extracted, before any ordering by hash.  The ordering by
\* hash that follows gives every list of 2 or more candidates the hash
\* order of its candidates, the same list as without overrides, and leaves
\* a list of fewer candidates as the overrides left it.  Without
\* fakePyDicts no candidates are collected and the lists stay as they were.
C28_OverridesBeforeOrdering ==
  [][/\ stage' = "overridden" =>
          /\ stage = "extracted"
          /\ candidates = << >>
          /\ ancient'.given
     /\ stage' = "ordered" =>
          \E b \in LegalWidths :
            LET ns    == detectNamespace(quads)
                plain == applyPy2Ordering(ExtractedClasses, quads, ns, b)
            IN  \A i \in 1..Len(vocab), f \in OrderedFields :
                  IF Len(candidates'[i][f]) >= 2
                    THEN /\ ListNames(vocab'[i], f)
                              = OrderedNames(f, py2DictOrder(
                                                  candidates'[i][f], b), ns)
                         /\ vocab'[i][f] = plain[i][f]
                    ELSE vocab'[i][f] = vocab[i][f]
     /\ stage' = "unordered" =>
          /\ vocab' = vocab
          /\ candidates' = << >>
     /\ (stage = "unordered" /\ stage' = "done") =>
          /\ candidates' = << >>
          /\ \A i \in 1..Len(vocab), f \in OrderedFields :
               vocab'[i][f] = vocab[i][f]]_vars

\* both options are set; the overrides had put the two properties of a
\* class in an order that the hash order has replaced, and the one subclass
\* of the class, which the overrides name as well, is as the overrides left
\* it
C28_Witness ==
  /\ stage = "ordered"
  /\ ancient.given
  /\ \E i \in 1..Len(vocab) :
       LET name      == vocab[i].localName
           overrides == ancient.ordering[name]
           before    == OverrideClass(ExtractedClasses[i], ancient.ordering)
       IN  /\ name \in DOMAIN ancient.ordering
           /\ {"inDomainOf", "hasSubClass"} \subseteq DOMAIN overrides
           /\ Len(candidates[i].inDomainOf) = 2
           /\ Len(overrides.inDomainOf) = 2
           /\ before.inDomainOf = overrides.inDomainOf
           /\ vocab[i].inDomainOf # before.inDomainOf
           /\ Len(candidates[i].hasSubClass) = 1
           /\ vocab[i].hasSubClass = before.hasSubClass

====
